---- MODULE Spec2Model ----
(***************************************************************************)
(* Model of the equipment ledger of src/App.tsx.  The file holds three     *)
(* builds of the application:                                              *)
(*   variant 1  lines    1..573   keyed photos, read-only sharing and the  *)
(*                                request/grant handshake, autosave switch *)
(*   variant 2  lines  576..1570  undo with isRestoring, guarded load      *)
(*   variant 3  lines 1573..2450  undo with isRestoring, unguarded load    *)
(* A behaviour is one session of one build.  React is modelled as it runs  *)
(* the component: an event handler runs against the values of the last     *)
(* render and its state updates are committed together; the effects whose  *)
(* dependencies changed then run in source order against the committed     *)
(* values, and their own updates are committed as the next render.         *)
(***************************************************************************)
EXTENDS Integers, Sequences, FiniteSets, TLC

VARIABLES
    variant,        \* which build of App.tsx runs (1, 2 or 3)
    pc,             \* "mount" | "effects" | "idle" | "crashed"
    appData,        \* useReducer(dataReducer, {})
    history,        \* useState<AppData[]>([])
    isRestoring,    \* useState(false), variants 2 and 3
    isReadOnly,     \* useState(false), variant 1
    autoSave,       \* settings.autoSave, variant 1
    currentDate,    \* formattedDate of the viewed day
    notifications,  \* useState<Notification[]>([]), variant 1
    confirmation,   \* the confirmation modal: "none" | "auth" | "noUndo"
    timers,         \* pending setTimeout callbacks of checkAuth
    urlData,        \* the 'data' parameter of the URL, as decoding will find it
    persisted,      \* localStorage slot 'equipmentData'
    savedSettings,  \* localStorage slot 'appSettings': "none", or autoSave "on" / "off"
    changed,        \* state pieces that changed in the last commit
    nextId,         \* source of generateId values
    steps,          \* user events so far
    lastOp,         \* observation: the last handler that ran
    pushLog,        \* observation: snapshots pushed by the last handler, with
                    \* the ledger each mutation was really applied to
    trail,          \* observation: the true pre-states of the mutations not undone
    requested,      \* observation: edit-access requests the user confirmed
    imported,       \* observation: the ledger decoded from the share token
    applied,        \* observation: the reducer call made directly, with its arguments
    pending,        \* file reads of the gallery still running, each with the
                    \* values of the render that started it
    photoDB,        \* the keys of the object store 'photos' (variant 1)
    deleting,       \* deletePhotoFromDB calls that have not completed
    heap            \* the objects of the ledger as JavaScript holds them, where
                    \* the reducer is followed object by object (SpecHeap)

vars == <<variant, pc, appData, history, isRestoring, isReadOnly, autoSave,
          currentDate, notifications, confirmation, timers, urlData, persisted,
          savedSettings, changed, nextId, steps, lastOp, pushLog, trail, requested, imported,
          applied, pending, photoDB, deleting, heap>>

-----------------------------------------------------------------------------
(* Bounds of the model *)

MaxSteps == 3          \* user events in a session of Spec
MaxDeepSteps == 12     \* user events in a session of SpecDeep
MaxItems == 2          \* rows the user adds to one category list
MaxTimers == 2         \* edit-access requests pending at once
MaxCalls == 2          \* reducer calls in a run of SpecReducer
MaxHeapCalls == 3      \* dispatches and undos in a run of SpecHeap
MaxPhotos == 1         \* photos the user gives one row
MaxPending == 1        \* file reads of the gallery running at once

(* Program constants *)

HistoryLimit == 10

CATEGORIES == <<"BOX", "CONTROLE">>
CatSet == {CATEGORIES[i] : i \in 1..Len(CATEGORIES)}

Today == "2024-03-01"
OtherDay == "2024-03-02"
DateKeys == {Today, OtherDay}

-----------------------------------------------------------------------------
(* Items, day records, ledgers *)

EmptyLedger == [d \in {} |-> 0]

BlankItem(id) == [id |-> id, qt |-> "", contract |-> "", serial |-> "", photos |-> <<>>]

CatIndex(c) == CHOOSE i \in 1..Len(CATEGORIES) : CATEGORIES[i] = c

\* createEmptyDailyData with generateId called once, outside the loop
createEmptyDailyDataOneId(base) == [c \in CatSet |-> <<BlankItem(base + 1)>>]

\* createEmptyDailyData(): one blank item per category; the ids are base+1..
createEmptyDailyData(base) == [c \in CatSet |-> <<BlankItem(base + CatIndex(c))>>]

Trim(s) == IF s = " " THEN "" ELSE s

\* isItemActive that compares the fields without trimming them
isItemActiveUntrimmed(v, item) ==
    \/ (v # 1 /\ item.qt # "")
    \/ item.contract # ""
    \/ item.serial # ""
    \/ Len(item.photos) > 0

isItemActive(v, item) ==
    \/ (v # 1 /\ Trim(item.qt) # "")
    \/ Trim(item.contract) # ""
    \/ Trim(item.serial) # ""
    \/ Len(item.photos) > 0

\* parseInt on the strings a quantity holds in the model: NaN, or the value
NaN == [nan |-> TRUE, val |-> 0]
Num(n) == [nan |-> FALSE, val |-> n]

parseInt(s) ==
    CASE s = "2" -> Num(2)
      [] s = "0" -> Num(0)
      [] s = "-2" -> Num(0 - 2)
      [] OTHER -> NaN

\* what one active item adds to the total of its category
\*   variant 1: filter(isItemActive).length
\*   variant 2: isNaN(quantity) || quantity <= 0 ? 1 : quantity
\*   variant 3: parseInt(item.qt) || 1
itemCount(v, item) ==
    LET quantity == parseInt(item.qt)
    IN  CASE v = 1 -> 1
          [] v = 2 -> IF quantity.nan \/ quantity.val <= 0 THEN 1 ELSE quantity.val
          [] OTHER -> IF quantity.nan \/ quantity.val = 0 THEN 1 ELSE quantity.val

\* the per-category total that counts the rows without data as well
RECURSIVE calculateCategoryTotalUnfiltered(_, _)
calculateCategoryTotalUnfiltered(v, catData) ==
    IF catData = <<>> THEN 0
    ELSE itemCount(v, Head(catData)) + calculateCategoryTotalUnfiltered(v, Tail(catData))

\* the per-category total of the summary footer
RECURSIVE calculateCategoryTotal(_, _)
calculateCategoryTotal(v, catData) ==
    IF catData = <<>> THEN 0
    ELSE (IF isItemActive(v, Head(catData)) THEN itemCount(v, Head(catData)) ELSE 0)
            + calculateCategoryTotal(v, Tail(catData))

\* Object.values(d).flat(): the items of a day record, category after category
RECURSIVE FlatFrom(_, _)
FlatFrom(d, i) ==
    IF i > Len(CATEGORIES) THEN <<>>
    ELSE (IF CATEGORIES[i] \in DOMAIN d THEN d[CATEGORIES[i]] ELSE <<>>) \o FlatFrom(d, i + 1)

\* what one active item adds to the total of its day
\*   variant 1: filter(isItemActive).length
\*   variant 3: isNaN(qty) ? 1 : qty
dayItemCount(v, item) ==
    LET qty == parseInt(item.qt)
    IN  CASE v = 3 -> IF qty.nan THEN 1 ELSE qty.val
          [] OTHER -> itemCount(v, item)

RECURSIVE SumActive(_, _)
SumActive(v, items) ==
    IF items = <<>> THEN 0
    ELSE (IF isItemActive(v, Head(items)) THEN dayItemCount(v, Head(items)) ELSE 0)
            + SumActive(v, Tail(items))

\* CATEGORIES.reduce((sum, cat) => sum + calculateCategoryTotal(data[cat] || []), 0)
RECURSIVE dayGrandTotal(_, _, _)
dayGrandTotal(v, d, i) ==
    IF i > Len(CATEGORIES) THEN 0
    ELSE calculateCategoryTotal(v, IF CATEGORIES[i] \in DOMAIN d THEN d[CATEGORIES[i]] ELSE <<>>)
            + dayGrandTotal(v, d, i + 1)

\* the day total of the summary footer: calculateTotal of variants 1 and 3,
\* dayGrandTotal of variant 2
calculateTotal(v, d) ==
    IF v = 2 THEN dayGrandTotal(v, d, 1) ELSE SumActive(v, FlatFrom(d, 1))

\* the day keys of the model, in calendar order, and what a Date built from
\* a key reports: getFullYear(), getMonth() + 1, getDate()
Calendar == <<"2024-02-29", "2024-03-01", "2024-03-02", "2024-03-03", "2024-03-04">>
CalendarSet == {Calendar[i] : i \in 1..Len(Calendar)}

YearOf(key) == 2024
MonthOf(key) == IF key = "2024-02-29" THEN 2 ELSE 3
DayOf(key) ==
    CASE key = "2024-02-29" -> 29
      [] key = "2024-03-01" -> 1
      [] key = "2024-03-02" -> 2
      [] key = "2024-03-03" -> 3
      [] OTHER -> 4

\* `${year}-${monthStr}-${dayStr}` with both parts padded to two digits; a
\* key outside the calendar of the model is a key that no ledger holds
NoKey == "0000-00-00"
DateKeyOf(y, m, d) ==
    IF \E key \in CalendarSet : YearOf(key) = y /\ MonthOf(key) = m /\ DayOf(key) = d
    THEN CHOOSE key \in CalendarSet : YearOf(key) = y /\ MonthOf(key) = m /\ DayOf(key) = d
    ELSE NoKey

\* a weight summed over a set of indices
RECURSIVE SumOver(_, _)
SumOver(S, weight) ==
    IF S = {} THEN 0
    ELSE LET i == CHOOSE k \in S : TRUE
         IN  weight[i] + SumOver(S \ {i}, weight)

\* the month total that sums every stored day
monthTotalAllKeys(v, allData, current) ==
    SumOver(DOMAIN allData, [key \in DOMAIN allData |-> calculateTotal(v, allData[key])])

\* the month total of the summary footer ("SOMA TOTAL")
\*   variants 1 and 3: for d = 1..31, the key of day d of the month of
\*                     currentDate, when the ledger holds it
\*   variant 2:        the keys that start with currentDate.substring(0, 7)
monthTotal(v, allData, current) ==
    IF v = 2
    THEN LET keys == {key \in DOMAIN allData :
                         YearOf(key) = YearOf(current) /\ MonthOf(key) = MonthOf(current)}
         IN  SumOver(keys, [key \in keys |-> dayGrandTotal(v, allData[key], 1)])
    ELSE SumOver(1..31,
                 [d \in 1..31 |->
                     LET dateKey == DateKeyOf(YearOf(current), MonthOf(current), d)
                     IN  IF dateKey \in DOMAIN allData
                         THEN calculateTotal(v, allData[dateKey]) ELSE 0])

\* A Date of the program: the calendar day it falls on where the program
\* runs (what getFullYear, getMonth and getDate read) and the calendar day it
\* falls on in UTC (what toISOString prints), both as positions in Calendar.
\* Where the clock is ahead of UTC, midnight and the first hours of a day
\* fall on the day before in UTC; where it is behind, the last hours of a
\* day fall on the day after.
Zones == {"behind", "utc", "ahead"}

KeyAt(i) == IF i \in 1..Len(Calendar) THEN Calendar[i] ELSE NoKey

\* the position in Calendar of day d of month m
DayIndex(y, m, d) == IF m = 2 THEN d - 28 ELSE d + 1

\* new Date(year, month, d): midnight of that day where the program runs
DateAtMidnight(zone, y, m, d) ==
    [local |-> DayIndex(y, m, d),
     utc |-> IF zone = "ahead" THEN DayIndex(y, m, d) - 1 ELSE DayIndex(y, m, d)]

\* new Date(): some time of day i
DatesNow(zone, i) ==
    {[local |-> i, utc |-> j] :
        j \in CASE zone = "behind" -> {i, i + 1}
                [] zone = "ahead" -> {i - 1, i}
                [] OTHER -> {i}}

\* date.toISOString().split('T')[0]
getFormattedDate(date) == KeyAt(date.utc)

\* the items of the month scope for one category: the active items of the
\* days d..currentDay of the month, each day looked up under the key that
\* getFormattedDate gives for its midnight
RECURSIVE aggregatedFrom(_, _, _, _, _, _, _, _)
aggregatedFrom(v, zone, appData_, y, m, d, currentDay, cat) ==
    IF d > currentDay THEN <<>>
    ELSE LET loopFmt == getFormattedDate(DateAtMidnight(zone, y, m, d))
             items == IF loopFmt \in DOMAIN appData_ /\ cat \in DOMAIN appData_[loopFmt]
                      THEN appData_[loopFmt][cat] ELSE <<>>
         IN  SelectSeq(items, LAMBDA item : isItemActive(v, item))
                \o aggregatedFrom(v, zone, appData_, y, m, d + 1, currentDay, cat)

\* getDataInRange(appData, currentDate, scope).data; `base` is the value
\* before the ids that createEmptyDailyData draws
getDataInRange(v, zone, appData_, date, scope, base) ==
    LET fmtDate == getFormattedDate(date)
        here == KeyAt(date.local)
    IN  IF scope = "day"
        THEN (IF fmtDate \in DOMAIN appData_ THEN appData_[fmtDate]
              ELSE createEmptyDailyData(base))
        ELSE [cat \in CatSet |->
                 aggregatedFrom(v, zone, appData_, YearOf(here), MonthOf(here), 1,
                                DayOf(here), cat)]

\* value.length for the strings a contract or serial field holds in the model
Length(s) ==
    CASE s = "" -> 0
      [] s = " " -> 1
      [] s = "SN" -> 2
      [] s = "C123" -> 4
      [] OTHER -> 5

\* checkDuplicate that lets an item match itself
checkDuplicateCountsSelf(appData_, value, currentId) ==
    /\ ~(value = "" \/ Length(value) < 3)
    /\ \E dateKey \in DOMAIN appData_ : \E catKey \in DOMAIN appData_[dateKey] :
          \E i \in 1..Len(appData_[dateKey][catKey]) :
              LET item == appData_[dateKey][catKey][i]
              IN  item.serial = value \/ item.contract = value

\* checkDuplicate: false for a value that is empty or shorter than 3; else
\* true at the first item with another id whose serial or contract is the value
checkDuplicate(appData_, value, currentId) ==
    /\ ~(value = "" \/ Length(value) < 3)
    /\ \E dateKey \in DOMAIN appData_ : \E catKey \in DOMAIN appData_[dateKey] :
          \E i \in 1..Len(appData_[dateKey][catKey]) :
              LET item == appData_[dateKey][catKey][i]
              IN  /\ item.id # currentId
                  /\ (item.serial = value \/ item.contract = value)

\* a photo list cut at the photo that is deleted
RemoveFrom(photos, k) == SubSeq(photos, 1, k - 1)

\* item.photos.filter((_, index) => index !== k)
RemoveAt(photos, k) == SubSeq(photos, 1, k - 1) \o SubSeq(photos, k + 1, Len(photos))

\* the photo references that the items of a list, and of a ledger, hold
KeysOf(items) == UNION {{items[i].photos[k] : k \in 1..Len(items[i].photos)} :
                           i \in 1..Len(items)}

PhotoKeys(L) == UNION {KeysOf(L[d][c]) : d \in DOMAIN L, c \in CatSet}

Put(L, d, rec) == [k \in (DOMAIN L) \cup {d} |-> IF k = d THEN rec ELSE L[k]]

findIndex(items, id) ==
    IF \E i \in 1..Len(items) : items[i].id = id
    THEN CHOOSE i \in 1..Len(items) :
            /\ items[i].id = id
            /\ \A j \in 1..(i - 1) : items[j].id # id
    ELSE 0

IdsOf(items) == {items[i].id : i \in 1..Len(items)}

Take(s, n) == SubSeq(s, 1, IF Len(s) < n THEN Len(s) ELSE n)

-----------------------------------------------------------------------------
(* The reducer.  An action that calls generateId carries `fresh`, the value *)
(* before the first id it draws.                                           *)

SetData(L) == [type |-> "SET_DATA", payload |-> L]
EnsureDay(d, rec) == [type |-> "ENSURE_DAY_DATA", date |-> d, dayData |-> rec]
AddItem(d, c, f) == [type |-> "ADD_ITEM", date |-> d, category |-> c, fresh |-> f]
UpdateItem(d, c, it) == [type |-> "UPDATE_ITEM", date |-> d, category |-> c, item |-> it]
DeleteItems(d, c, ids, f) ==
    [type |-> "DELETE_ITEMS", date |-> d, category |-> c, itemIds |-> ids, fresh |-> f]
ClearAll == [type |-> "CLEAR_ALL_DATA"]

\* ENSURE_DAY_DATA without the test for a day that is present
ReduceEnsureDayOverwrites(state, a) == Put(state, a.date, a.dayData)

ReduceEnsureDay(state, a) ==
    IF a.date \in DOMAIN state THEN state ELSE Put(state, a.date, a.dayData)

\* ADD_ITEM that puts the new row first
ReduceAddItemUnshifts(state, a) ==
    LET made == a.date \notin DOMAIN state
        day == IF made THEN createEmptyDailyData(a.fresh) ELSE state[a.date]
        id == IF made THEN a.fresh + Len(CATEGORIES) + 1 ELSE a.fresh + 1
    IN  Put(state, a.date,
            [day EXCEPT ![a.category] = <<BlankItem(id)>> \o @])

ReduceAddItem(state, a) ==
    LET made == a.date \notin DOMAIN state
        day == IF made THEN createEmptyDailyData(a.fresh) ELSE state[a.date]
        id == IF made THEN a.fresh + Len(CATEGORIES) + 1 ELSE a.fresh + 1
    IN  Put(state, a.date,
            [day EXCEPT ![a.category] = Append(@, BlankItem(id))])

\* UPDATE_ITEM that pushes without looking the id up
ReduceUpdateItemPushes(state, a) ==
    IF a.date \notin DOMAIN state \/ a.category \notin DOMAIN state[a.date]
    THEN state
    ELSE [state EXCEPT ![a.date][a.category] = Append(@, a.item)]

\* UPDATE_ITEM that creates the day it does not find, as ADD_ITEM does
ReduceUpdateItemCreatesDay(state, a) ==
    LET made == a.date \notin DOMAIN state
        day == IF made THEN createEmptyDailyData(a.item.id) ELSE state[a.date]
    IN  IF a.category \notin DOMAIN day
        THEN state
        ELSE LET dayData == day[a.category]
                 itemIndex == findIndex(dayData, a.item.id)
                 list == IF itemIndex > 0
                         THEN [dayData EXCEPT ![itemIndex] = a.item]
                         ELSE Append(dayData, a.item)
             IN  Put(state, a.date, [day EXCEPT ![a.category] = list])

ReduceUpdateItem(state, a) ==
    IF a.date \notin DOMAIN state \/ a.category \notin DOMAIN state[a.date]
    THEN state
    ELSE LET dayData == state[a.date][a.category]
             itemIndex == findIndex(dayData, a.item.id)
             list == IF itemIndex > 0
                     THEN [dayData EXCEPT ![itemIndex] = a.item]
                     ELSE Append(dayData, a.item)
         IN  [state EXCEPT ![a.date][a.category] = list]

\* DELETE_ITEMS that keeps the first row when every row is selected
ReduceDeleteItemsKeepsFirst(state, a) ==
    IF a.date \notin DOMAIN state \/ a.category \notin DOMAIN state[a.date]
    THEN state
    ELSE LET dayData == state[a.date][a.category]
             kept == SelectSeq(dayData, LAMBDA it : it.id \notin a.itemIds)
         IN  [state EXCEPT ![a.date][a.category] =
                  IF Len(kept) = 0 /\ dayData # <<>> THEN <<dayData[1]>> ELSE kept]

\* DELETE_ITEMS without the re-inserted placeholder row
ReduceDeleteItemsNoPlaceholder(state, a) ==
    IF a.date \notin DOMAIN state \/ a.category \notin DOMAIN state[a.date]
    THEN state
    ELSE [state EXCEPT ![a.date][a.category] =
              SelectSeq(@, LAMBDA it : it.id \notin a.itemIds)]

ReduceDeleteItems(state, a) ==
    IF a.date \notin DOMAIN state \/ a.category \notin DOMAIN state[a.date]
    THEN state
    ELSE LET dayData == state[a.date][a.category]
             kept == SelectSeq(dayData, LAMBDA it : it.id \notin a.itemIds)
             list == IF Len(kept) = 0 THEN <<BlankItem(a.fresh + 1)>> ELSE kept
         IN  [state EXCEPT ![a.date][a.category] = list]

\* DELETE_ITEMS of variant 1 calls deletePhotoFromDB for every photo of every
\* item of the list whose id is in itemIds; the other builds keep the photos
\* inside the items and have no photo store
\* the deletes when the photos of every row of the list are deleted
reducerDeletesWholeList(v, state, a) ==
    IF v = 1 /\ a.type = "DELETE_ITEMS"
         /\ a.date \in DOMAIN state /\ a.category \in DOMAIN state[a.date]
    THEN KeysOf(state[a.date][a.category])
    ELSE {}

reducerDeletes(v, state, a) ==
    IF v = 1 /\ a.type = "DELETE_ITEMS"
         /\ a.date \in DOMAIN state /\ a.category \in DOMAIN state[a.date]
    THEN KeysOf(SelectSeq(state[a.date][a.category], LAMBDA it : it.id \in a.itemIds))
    ELSE {}

dataReducer(state, a) ==
    CASE a.type = "SET_DATA" -> a.payload
      [] a.type = "ENSURE_DAY_DATA" -> ReduceEnsureDay(state, a)
      [] a.type = "ADD_ITEM" -> ReduceAddItem(state, a)
      [] a.type = "UPDATE_ITEM" -> ReduceUpdateItem(state, a)
      [] a.type = "DELETE_ITEMS" -> ReduceDeleteItems(state, a)
      [] a.type = "CLEAR_ALL_DATA" -> EmptyLedger
      [] OTHER -> state

\* the ledger is followed by value
NoHeap == [mem |-> <<>>, root |-> 0, hist |-> <<>>]

\* no reducer call observed
NoCall == [act |-> [type |-> "NONE"], pre |-> EmptyLedger, base |-> 0]

\* the queue of one render, applied in dispatch order
RECURSIVE ApplyAll(_, _)
ApplyAll(state, queue) ==
    IF queue = <<>> THEN state
    ELSE ApplyAll(dataReducer(state, Head(queue)), Tail(queue))

\* the deletePhotoFromDB calls of the queue of one render
RECURSIVE DeletesOfAll(_, _, _)
DeletesOfAll(v, state, queue) ==
    IF queue = <<>> THEN {}
    ELSE reducerDeletes(v, state, Head(queue))
            \cup DeletesOfAll(v, dataReducer(state, Head(queue)), Tail(queue))

-----------------------------------------------------------------------------
(* What the session finds when it starts *)

StoredItem(id, serial) == [BlankItem(id) EXCEPT !.serial = serial]

\* a ledger written by an earlier session that holds the day viewed at start
LedgerToday ==
    Put(EmptyLedger, Today,
        [c \in CatSet |-> IF c = CATEGORIES[1] THEN <<StoredItem(1, "SN123")>>
                          ELSE <<BlankItem(2)>>])

\* a ledger written by an earlier session that lacks the day viewed at start
LedgerOther ==
    Put(EmptyLedger, OtherDay,
        [c \in CatSet |-> IF c = CATEGORIES[1] THEN <<StoredItem(3, "SN456")>>
                          ELSE <<BlankItem(4)>>])

\* a ledger written by an earlier session whose rows have photos
LedgerPhotos ==
    Put(EmptyLedger, Today,
        [c \in CatSet |->
            IF c = CATEGORIES[1]
            THEN <<[StoredItem(1, "SN123") EXCEPT !.photos = <<4, 5, 6>>],
                   [StoredItem(2, "SN456") EXCEPT !.photos = <<7>>]>>
            ELSE <<BlankItem(3)>>])

\* the stored ledgers hold the ids 1..FirstId
FirstId == 4 * Len(CATEGORIES)

Slot(tag, data) == [tag |-> tag, data |-> data]
NoData == Slot("none", EmptyLedger)
Malformed == Slot("bad", EmptyLedger)

PersistedChoices == {NoData, Malformed, Slot("ok", LedgerToday), Slot("ok", LedgerOther)}
UrlChoices == {NoData, Malformed, Slot("ok", LedgerOther)}

\* JSON.stringify(settings), as far as the autoSave flag goes
SettingsText(auto) == IF auto THEN "on" ELSE "off"

\* the state after construction, with the slot holding one of `slots`
Start(slots) ==
    /\ variant \in {1, 2, 3}
    /\ pc = "mount"
    /\ appData = EmptyLedger
    /\ history = <<>>
    /\ isRestoring = FALSE
    /\ isReadOnly = FALSE
    /\ autoSave = TRUE
    /\ currentDate = Today
    /\ notifications = <<>>
    /\ confirmation = "none"
    /\ timers = 0
    /\ urlData \in (IF variant = 1 THEN UrlChoices ELSE {NoData})
    /\ persisted \in slots
    /\ savedSettings \in (IF variant = 1 THEN {"none", "off"} ELSE {"none"})
    /\ changed = {}
    /\ nextId = FirstId
    /\ steps = 0
    /\ lastOp = "none"
    /\ pushLog = <<>>
    /\ trail = <<>>
    /\ requested = 0
    /\ imported = EmptyLedger
    /\ applied = NoCall
    /\ pending = <<>>
    /\ photoDB = IF variant = 1 THEN PhotoKeys(persisted.data) ELSE {}
    /\ deleting = {}
    /\ heap = NoHeap

Init == Start(PersistedChoices)

-----------------------------------------------------------------------------
(* Effects *)

Diff(name, old, new) == IF old = new THEN {} ELSE {name}

PcAfter(ch) == IF ch = {} THEN "idle" ELSE "effects"

\* the ensure-day effect: the dispatches it queues, run against a render
EnsureDayEffect(data, date, readOnly, base) ==
    IF date \notin DOMAIN data /\ ~readOnly
    THEN <<EnsureDay(date, createEmptyDailyData(base))>>
    ELSE <<>>

\* the autosave effect without its read-only test
AutosaveIgnoresReadOnly(v, data, readOnly, auto, restoring) ==
    CASE v = 1 -> DOMAIN data # {} /\ auto
      [] OTHER -> ~restoring

\* the autosave effect without its test of the setting
AutosaveIgnoresSetting(v, data, readOnly, auto, restoring) ==
    CASE v = 1 -> ~readOnly /\ DOMAIN data # {}
      [] OTHER -> ~restoring

\* the autosave effect: does it write the slot, given a render
AutosaveWrites(v, data, readOnly, auto, restoring) ==
    CASE v = 1 -> ~readOnly /\ DOMAIN data # {} /\ auto
      [] OTHER -> ~restoring

\* the load at mount throws out of the effect
LoadThrows(v, url, slot) ==
    CASE v = 1 -> url.tag = "none" /\ slot.tag = "bad"
      [] v = 2 -> FALSE
      [] OTHER -> slot.tag = "bad"

\* the dispatch queued by the load at mount
LoadQueue(v, url, slot) ==
    CASE v = 1 /\ url.tag = "ok" -> <<SetData(url.data)>>
      [] v = 1 /\ url.tag = "bad" -> <<>>
      [] slot.tag = "ok" -> <<SetData(slot.data)>>
      [] OTHER -> <<>>

\* JSON.stringify of a ledger: a text that JSON.parse reads back as the same
\* ledger.  Of the characters of the text the model keeps what the encoding
\* of the share token depends on: three '>' in a row put a '>' last in a
\* group of three bytes, and base64 writes the last six bits of '>' as '+'.
HasPlus(L) ==
    \E d \in DOMAIN L : \E c \in DOMAIN L[d] : \E i \in 1..Len(L[d][c]) :
        "SN>>>" \in {L[d][c][i].serial, L[d][c][i].contract}

stringify(L) == [parsed |-> L, plus |-> HasPlus(L)]

\* btoa(text): the base64 text, with a '+' where the text calls for one
btoa(text) == [text |-> text, plus |-> text.plus, spaces |-> FALSE]

\* new URLSearchParams(window.location.search).get('data') on the link
\* `...?data=${dataStr}`: a '+' of the query is read as a space
get(dataStr) == [dataStr EXCEPT !.plus = FALSE, !.spaces = dataStr.plus]

\* JSON.parse(atob(sharedData)) inside the try: atob drops the spaces, and
\* what is left of the base64 text no longer decodes to the JSON text
decode(sharedData) ==
    IF sharedData.spaces THEN Malformed ELSE Slot("ok", sharedData.text.parsed)

\* localStorage.setItem('equipmentData', JSON.stringify(appData)) and the
\* JSON.parse(savedData) of the next start
savedSlot(L) == Slot("ok", stringify(L).parsed)

\* the effects an effects pass runs, by the dependencies that changed
EnsureDeps(v) ==
    IF v = 1 THEN {"appData", "formattedDate", "isReadOnly"} ELSE {"appData", "formattedDate"}

SaveDeps(v) ==
    IF v = 1 THEN {"appData", "isReadOnly", "autoSave"} ELSE {"appData", "isRestoring"}

\* the first effects pass: every effect runs against the first render, in
\* which appData = {}, isReadOnly = false, isRestoring = false and the settings
\* are the defaults.  When the load throws, the error boundary replaces the
\* component by its error screen; whether the effects after the load still
\* ran depends on the React build in use.
Mount ==
    /\ pc = "mount"
    /\ IF LoadThrows(variant, urlData, persisted)
       THEN /\ pc' = "crashed"
            /\ \E rest \in BOOLEAN :
                  /\ persisted' =
                        IF rest /\ AutosaveWrites(variant, appData, isReadOnly,
                                                  autoSave, isRestoring)
                        THEN Slot("ok", appData) ELSE persisted
                  /\ savedSettings' =
                        IF rest /\ variant = 1 THEN SettingsText(autoSave)
                        ELSE savedSettings
            /\ UNCHANGED <<appData, isReadOnly, autoSave, notifications,
                           changed, nextId, imported>>
       ELSE LET shared == variant = 1 /\ urlData.tag = "ok"
                queue == LoadQueue(variant, urlData, persisted)
                           \o EnsureDayEffect(appData, currentDate, isReadOnly, nextId)
                newData == ApplyAll(appData, queue)
            IN  /\ appData' = newData
                /\ isReadOnly' = shared
                /\ imported' = IF shared THEN urlData.data ELSE imported
                /\ notifications' =
                      IF shared
                      THEN Append(notifications,
                                  [id |-> nextId + Len(CATEGORIES) + 1, type |-> "info"])
                      ELSE notifications
                /\ nextId' = nextId + Len(CATEGORIES) + 1
                /\ persisted' =
                      IF AutosaveWrites(variant, appData, isReadOnly, autoSave, isRestoring)
                      THEN Slot("ok", appData) ELSE persisted
                /\ autoSave' = IF savedSettings = "none" THEN autoSave
                               ELSE savedSettings = "on"
                /\ savedSettings' =
                      IF variant = 1 THEN SettingsText(autoSave) ELSE savedSettings
                /\ changed' = Diff("appData", appData, newData)
                                \cup Diff("isReadOnly", isReadOnly, shared)
                                \cup Diff("autoSave", autoSave, autoSave')
                                \cup (IF savedSettings = "none" THEN {} ELSE {"settings"})
                /\ pc' = PcAfter(changed')
    /\ lastOp' = "mount"
    /\ UNCHANGED <<variant, heap, photoDB, deleting, pending, applied, history, isRestoring, currentDate,
                   confirmation, timers, urlData, steps, pushLog, trail, requested>>

\* an effects pass in which the initialization effect runs again and finds
\* the share token again
EffectsPassInitializesAgain ==
    /\ pc = "effects"
    /\ LET runEnsure == changed \cap EnsureDeps(variant) # {}
           runSave == changed \cap SaveDeps(variant) # {}
           queue == IF runEnsure
                    THEN EnsureDayEffect(appData, currentDate, isReadOnly, nextId)
                    ELSE <<>>
           newData == ApplyAll(appData, queue)
           clears == runSave /\ variant = 2 /\ isRestoring
           writes == runSave /\ ~clears
                        /\ AutosaveWrites(variant, appData, isReadOnly, autoSave, isRestoring)
       IN  /\ appData' = newData
           /\ nextId' = nextId + (IF queue = <<>> THEN 0 ELSE Len(CATEGORIES))
           /\ isRestoring' = IF clears THEN FALSE ELSE isRestoring
           /\ isReadOnly' = IF variant = 1 /\ urlData.tag = "ok" THEN TRUE ELSE isReadOnly
           /\ persisted' = IF writes THEN Slot("ok", appData) ELSE persisted
           /\ savedSettings' = IF "settings" \in changed THEN SettingsText(autoSave)
                                ELSE savedSettings
           /\ changed' = Diff("appData", appData, newData)
                           \cup Diff("isRestoring", isRestoring, isRestoring')
           /\ pc' = PcAfter(changed')
    /\ UNCHANGED <<variant, heap, photoDB, deleting, pending, applied, history, autoSave, currentDate, notifications,
                   confirmation, timers, urlData, steps, lastOp, pushLog, trail,
                   requested, imported>>

\* a later effects pass: the effects whose dependencies changed run against
\* the committed render
EffectsPass ==
    /\ pc = "effects"
    /\ LET runEnsure == changed \cap EnsureDeps(variant) # {}
           runSave == changed \cap SaveDeps(variant) # {}
           queue == IF runEnsure
                    THEN EnsureDayEffect(appData, currentDate, isReadOnly, nextId)
                    ELSE <<>>
           newData == ApplyAll(appData, queue)
           clears == runSave /\ variant = 2 /\ isRestoring
           writes == runSave /\ ~clears
                        /\ AutosaveWrites(variant, appData, isReadOnly, autoSave, isRestoring)
       IN  /\ appData' = newData
           /\ nextId' = nextId + (IF queue = <<>> THEN 0 ELSE Len(CATEGORIES))
           /\ isRestoring' = IF clears THEN FALSE ELSE isRestoring
           /\ persisted' = IF writes THEN Slot("ok", appData) ELSE persisted
           /\ savedSettings' = IF "settings" \in changed THEN SettingsText(autoSave)
                                ELSE savedSettings
           /\ changed' = Diff("appData", appData, newData)
                           \cup Diff("isRestoring", isRestoring, isRestoring')
           /\ pc' = PcAfter(changed')
    /\ UNCHANGED <<variant, heap, photoDB, deleting, pending, applied, history, isReadOnly, autoSave, currentDate, notifications,
                   confirmation, timers, urlData, steps, lastOp, pushLog, trail,
                   requested, imported>>

-----------------------------------------------------------------------------
(* Handlers *)

Idle == pc = "idle" /\ confirmation = "none"

Reverse(s) == [i \in 1..Len(s) |-> s[Len(s) + 1 - i]]

\* the ledgers the actions of one handler are applied to, in dispatch order
PreStates(state, acts) == [i \in 1..Len(acts) |-> ApplyAll(state, SubSeq(acts, 1, i - 1))]

\* setHistory(prev => [appData, ...prev].slice(0, 10)), once per dispatch, all
\* with the appData of the render the handler closed over
\* the history sliced one entry too late
PushHistoryKeepsEleven(hist, snapshot, n) ==
    Take([i \in 1..n |-> snapshot] \o hist, HistoryLimit + 1)

PushHistory(hist, snapshot, n) ==
    Take([i \in 1..n |-> snapshot] \o hist, HistoryLimit)

\* dispatchWithHistory for the actions one handler issues while editing is
\* allowed, after the handler has stored the photos `saved`
DispatchAfterSave(acts, op, ids, saved) ==
    /\ photoDB' = photoDB \cup saved
    /\ deleting' = deleting \cup DeletesOfAll(variant, appData, acts)
    /\ history' = PushHistory(history, appData, Len(acts))
    /\ appData' = ApplyAll(appData, acts)
    /\ nextId' = nextId + ids
    /\ pushLog' = [i \in 1..Len(acts) |->
                      [snap |-> appData, pre |-> PreStates(appData, acts)[i]]]
    /\ trail' = Take(Reverse(PreStates(appData, acts)) \o trail, HistoryLimit)
    /\ changed' = Diff("appData", appData, appData')
    /\ pc' = PcAfter(changed')
    /\ lastOp' = op
    /\ steps' = steps + 1
    /\ UNCHANGED <<variant, heap, pending, applied, isRestoring, isReadOnly, autoSave, currentDate, notifications,
                   confirmation, timers, urlData, persisted, savedSettings, requested, imported>>

Dispatch(acts, op, ids) == DispatchAfterSave(acts, op, ids, {})

\* checkAuth while the session is read-only: the handshake is offered
OfferHandshake ==
    /\ confirmation' = "auth"
    /\ lastOp' = "prompt"
    /\ UNCHANGED <<variant, heap, photoDB, deleting, pending, applied, pc, appData, history, isRestoring, isReadOnly, autoSave,
                   currentDate, notifications, timers, urlData, persisted, savedSettings, changed,
                   nextId, steps, pushLog, trail, requested, imported>>

Rows(c) == IF currentDate \in DOMAIN appData THEN appData[currentDate][c] ELSE <<>>

\* handleAddItem
HandleAddItem(c) ==
    /\ Idle
    /\ IF variant = 1 /\ isReadOnly
       THEN OfferHandshake
       ELSE /\ Len(Rows(c)) < MaxItems
            /\ variant = 2 =>
                  (Rows(c) = <<>> \/ isItemActive(variant, Rows(c)[Len(Rows(c))]))
            /\ Dispatch(<<AddItem(currentDate, c, nextId)>>, "add", 1)

Fields == {"qt", "contract", "serial"}
TypedValue(f) == CASE f = "qt" -> "2" [] f = "contract" -> "C123" [] OTHER -> "SN123"

\* EquipmentRow.handleChange -> handleUpdateItem: the user types into, or
\* empties, one field of a displayed row
HandleUpdateItem(c, i, f) ==
    /\ Idle
    /\ ~isReadOnly
    /\ variant = 1 => f # "qt"
    /\ i \in 1..Len(Rows(c))
    /\ LET item == Rows(c)[i]
           typed == [item EXCEPT ![f] = IF @ = "" THEN TypedValue(f) ELSE ""]
       IN  Dispatch(<<UpdateItem(currentDate, c, typed)>>, "update", 0)

\* the rows whose delete checkbox is shown
Selectable(c) ==
    {Rows(c)[i].id : i \in {j \in 1..Len(Rows(c)) :
                               variant = 3 \/ isItemActive(variant, Rows(c)[j])}}

\* handleConfirmGlobalDelete, confirmed: one DELETE_ITEMS per category that
\* has selected rows
DeleteQueue(sel, base) ==
    LET cats == SelectSeq(CATEGORIES, LAMBDA c : sel[c] # {})
    IN  [i \in 1..Len(cats) |-> DeleteItems(currentDate, cats[i], sel[cats[i]], base + i - 1)]

HandleConfirmGlobalDelete(sel) ==
    /\ Idle
    /\ variant \in {2, 3}
    /\ \A c \in CatSet : sel[c] \subseteq Selectable(c)
    /\ \E c \in CatSet : sel[c] # {}
    /\ LET acts == DeleteQueue(sel, nextId)
           all == \E c \in CatSet : sel[c] = IdsOf(Rows(c))
       IN  Dispatch(acts, IF all THEN "deleteAll" ELSE "delete", Len(acts))

\* reset in the settings modal, confirmed
HandleClearAll ==
    /\ Idle
    /\ ~isReadOnly
    /\ Dispatch(<<ClearAll>>, "clear", 0)

\* the undo button
HandleUndo ==
    /\ Idle
    /\ IF history # <<>>
       THEN /\ appData' = Head(history)
            /\ history' = IF variant = 1 THEN history ELSE Tail(history)
            /\ isRestoring' = IF variant = 1 THEN isRestoring ELSE TRUE
            /\ confirmation' = confirmation
            /\ lastOp' = "undo"
       ELSE /\ confirmation' = IF variant = 2 THEN "noUndo" ELSE confirmation
            /\ lastOp' = "undoEmpty"
            /\ UNCHANGED <<appData, history, isRestoring>>
    /\ trail' = IF trail = <<>> THEN trail ELSE Tail(trail)
    /\ changed' = Diff("appData", appData, appData')
                    \cup Diff("isRestoring", isRestoring, isRestoring')
    /\ pc' = PcAfter(changed')
    /\ pushLog' = <<>>
    /\ steps' = steps + 1
    /\ UNCHANGED <<variant, heap, photoDB, deleting, pending, applied, isReadOnly, autoSave, currentDate, notifications, timers,
                   urlData, persisted, savedSettings, nextId, requested, imported>>

\* a day picked in the calendar
HandleDateSelect(d) ==
    /\ Idle
    /\ d # currentDate
    /\ currentDate' = d
    /\ changed' = {"formattedDate"}
    /\ pc' = "effects"
    /\ lastOp' = "date"
    /\ steps' = steps + 1
    /\ UNCHANGED <<variant, heap, photoDB, deleting, pending, applied, appData, history, isRestoring, isReadOnly, autoSave,
                   notifications, confirmation, timers, urlData, persisted, savedSettings, nextId,
                   pushLog, trail, requested, imported>>

\* the autosave switch of the settings modal
HandleToggleAutoSave ==
    /\ Idle
    /\ variant = 1
    /\ autoSave' = ~autoSave
    /\ changed' = {"autoSave", "settings"}
    /\ pc' = "effects"
    /\ lastOp' = "toggle"
    /\ steps' = steps + 1
    /\ UNCHANGED <<variant, heap, photoDB, deleting, pending, applied, appData, history, isRestoring, isReadOnly, currentDate,
                   notifications, confirmation, timers, urlData, persisted, savedSettings, nextId,
                   pushLog, trail, requested, imported>>

\* the prompt of checkAuth, confirmed, grants edit access at once
HandleConfirmRequestGrants ==
    /\ pc = "idle"
    /\ confirmation = "auth"
    /\ timers < MaxTimers
    /\ confirmation' = "none"
    /\ isReadOnly' = FALSE
    /\ requested' = requested + 1
    /\ changed' = Diff("isReadOnly", isReadOnly, FALSE)
    /\ pc' = PcAfter(changed')
    /\ lastOp' = "request"
    /\ steps' = steps + 1
    /\ UNCHANGED <<variant, heap, photoDB, deleting, pending, applied, appData, history, isRestoring, autoSave, currentDate,
                   notifications, timers, urlData, persisted, savedSettings, nextId, pushLog, trail,
                   imported>>

\* the user confirms the prompt of checkAuth: the request is sent and the
\* approval timer started
HandleConfirmRequest ==
    /\ pc = "idle"
    /\ confirmation = "auth"
    /\ timers < MaxTimers
    /\ confirmation' = "none"
    /\ timers' = timers + 1
    /\ requested' = requested + 1
    /\ lastOp' = "request"
    /\ steps' = steps + 1
    /\ UNCHANGED <<variant, heap, photoDB, deleting, pending, applied, pc, appData, history, isRestoring, isReadOnly, autoSave,
                   currentDate, notifications, urlData, persisted, savedSettings, changed, nextId,
                   pushLog, trail, imported>>

\* the confirmation modal is cancelled or, for a message, acknowledged
HandleCancel ==
    /\ pc = "idle"
    /\ confirmation # "none"
    /\ confirmation' = "none"
    /\ lastOp' = "cancel"
    /\ UNCHANGED <<variant, heap, photoDB, deleting, pending, applied, pc, appData, history, isRestoring, isReadOnly, autoSave,
                   currentDate, notifications, timers, urlData, persisted, savedSettings, changed,
                   nextId, steps, pushLog, trail, requested, imported>>

\* the approval timer of checkAuth expires
TimerFires ==
    /\ pc = "idle"
    /\ timers > 0
    /\ timers' = timers - 1
    /\ notifications' = <<[id |-> nextId + 1, type |-> "request"]>> \o notifications
    /\ nextId' = nextId + 1
    /\ lastOp' = "timer"
    /\ UNCHANGED <<variant, heap, photoDB, deleting, pending, applied, pc, appData, history, isRestoring, isReadOnly, autoSave,
                   currentDate, confirmation, urlData, persisted, savedSettings, changed, steps,
                   pushLog, trail, requested, imported>>

\* NotificationsModal.handleAction on a request notification
HandleAction(i) ==
    /\ Idle
    /\ i \in 1..Len(notifications)
    /\ notifications[i].type = "request"
    /\ isReadOnly' = FALSE
    /\ notifications' = SelectSeq(notifications, LAMBDA n : n.id # notifications[i].id)
    /\ changed' = Diff("isReadOnly", isReadOnly, FALSE)
    /\ pc' = PcAfter(changed')
    /\ lastOp' = "grant"
    /\ steps' = steps + 1
    /\ UNCHANGED <<variant, heap, photoDB, deleting, pending, applied, appData, history, isRestoring, autoSave, currentDate,
                   confirmation, timers, urlData, persisted, savedSettings, nextId, pushLog, trail,
                   requested, imported>>

\* onCapture of the camera modal with a photo taken: the row the camera was
\* opened on is updated with the photo appended.  In variant 1 the photo is
\* first stored under a new key, also when the session is read-only and the
\* update is then refused; the modal covers the page until the update is
\* dispatched.
HandleCameraCapture(c, i) ==
    /\ Idle
    /\ i \in 1..Len(Rows(c))
    /\ Len(Rows(c)[i].photos) < MaxPhotos
    /\ IF variant = 1 /\ isReadOnly
       THEN /\ photoDB' = photoDB \cup {nextId + 1}
            /\ nextId' = nextId + 1
            /\ confirmation' = "auth"
            /\ lastOp' = "prompt"
            /\ UNCHANGED <<variant, heap, deleting, pending, applied, pc, appData, history,
                           isRestoring, isReadOnly, autoSave, currentDate, notifications,
                           timers, urlData, persisted, savedSettings, changed, steps,
                           pushLog, trail, requested, imported>>
       ELSE LET updatedItem == [Rows(c)[i] EXCEPT !.photos = Append(@, nextId + 1)]
            IN  DispatchAfterSave(<<UpdateItem(currentDate, c, updatedItem)>>, "capture", 1,
                                  IF variant = 1 THEN {nextId + 1} ELSE {})

\* a photo of the gallery is deleted, confirmed (variants 2 and 3)
HandleDeletePhoto(c, i, k) ==
    /\ Idle
    /\ variant \in {2, 3}
    /\ i \in 1..Len(Rows(c))
    /\ k \in 1..Len(Rows(c)[i].photos)
    /\ LET newPhotos == RemoveAt(Rows(c)[i].photos, k)
       IN  Dispatch(<<UpdateItem(currentDate, c, [Rows(c)[i] EXCEPT !.photos = newPhotos])>>,
                    "photoDelete", 0)

\* a file is picked in the gallery of variant 1: the read of the file and
\* the write to the photo store run on, holding onUpdatePhotos of the render
\* in which the file was picked
HandlePickFile(c, i) ==
    /\ Idle
    /\ variant = 1
    /\ Len(pending) < MaxPending
    /\ i \in 1..Len(Rows(c))
    /\ Len(Rows(c)[i].photos) < MaxPhotos
    /\ pending' = Append(pending,
                         [date |-> currentDate, category |-> c,
                          item |-> [Rows(c)[i] EXCEPT !.photos = Append(@, nextId + 1)],
                          appData |-> appData, isReadOnly |-> isReadOnly])
    /\ nextId' = nextId + 1
    /\ lastOp' = "pick"
    /\ steps' = steps + 1
    /\ UNCHANGED <<variant, heap, photoDB, deleting, applied, pc, appData, history, isRestoring, isReadOnly,
                   autoSave, currentDate, notifications, confirmation, timers, urlData,
                   persisted, savedSettings, changed, pushLog, trail, requested, imported>>

\* the file is read and stored: onUpdatePhotos runs with the values it closed
\* over, and the reducer applies its UPDATE_ITEM to the ledger of now
FileLoaded(k) ==
    /\ pc = "idle"
    /\ k \in 1..Len(pending)
    /\ pending' = SubSeq(pending, 1, k - 1) \o SubSeq(pending, k + 1, Len(pending))
    /\ photoDB' = photoDB \cup {pending[k].item.photos[Len(pending[k].item.photos)]}
    /\ lastOp' = "loaded"
    /\ IF pending[k].isReadOnly
       THEN /\ confirmation' = "auth"
            /\ UNCHANGED <<appData, history, pushLog, trail, changed, pc>>
       ELSE /\ history' = PushHistory(history, pending[k].appData, 1)
            /\ appData' = dataReducer(appData, UpdateItem(pending[k].date,
                                                         pending[k].category,
                                                         pending[k].item))
            /\ pushLog' = <<[snap |-> pending[k].appData, pre |-> appData]>>
            /\ trail' = Take(<<appData>> \o trail, HistoryLimit)
            /\ changed' = Diff("appData", appData, appData')
            /\ pc' = PcAfter(changed')
            /\ UNCHANGED confirmation
    /\ UNCHANGED <<variant, heap, deleting, applied, isRestoring, isReadOnly, autoSave, currentDate,
                   notifications, timers, urlData, persisted, savedSettings, nextId,
                   steps, requested, imported>>

-----------------------------------------------------------------------------
(* Sessions *)

Budget == steps < MaxSteps

UserAddItem == Budget /\ \E c \in CatSet : HandleAddItem(c)
UserUpdateItem == Budget /\ \E c \in CatSet, i \in 1..MaxItems, f \in Fields :
                                HandleUpdateItem(c, i, f)
UserDeleteItems == Budget /\ \E sel \in [CatSet -> SUBSET UNION {Selectable(c) : c \in CatSet}] :
                                HandleConfirmGlobalDelete(sel)
UserClearAll == Budget /\ HandleClearAll
UserUndo == Budget /\ HandleUndo
UserDateSelect == Budget /\ \E d \in DateKeys : HandleDateSelect(d)
UserToggleAutoSave == Budget /\ HandleToggleAutoSave
UserConfirmRequest == Budget /\ HandleConfirmRequest
UserCancel == HandleCancel
UserGrant == Budget /\ \E i \in 1..Len(notifications) : HandleAction(i)

Next ==
    \/ Mount
    \/ EffectsPass
    \/ UserAddItem
    \/ UserUpdateItem
    \/ UserDeleteItems
    \/ UserClearAll
    \/ UserUndo
    \/ UserDateSelect
    \/ UserToggleAutoSave
    \/ UserConfirmRequest
    \/ UserCancel
    \/ TimerFires
    \/ UserGrant

Spec == Init /\ [][Next]_vars

\* the effects of a commit are run: neither the mount nor an effects pass is
\* postponed for ever
SpecFair == Spec /\ WF_vars(Mount) /\ WF_vars(EffectsPass)

\* a long session of one user who edits one field and undoes
DeepInit == Init /\ urlData = NoData /\ persisted = NoData

DeepBudget == steps < MaxDeepSteps

DeepUpdateItem == DeepBudget /\ HandleUpdateItem(CATEGORIES[1], 1, "serial")
DeepUndo == DeepBudget /\ HandleUndo

DeepNext ==
    \/ Mount
    \/ EffectsPass
    \/ DeepUpdateItem
    \/ DeepUndo

SpecDeep == DeepInit /\ [][DeepNext]_vars

\* React runs the effects of every commit: the mount and the effects passes
\* are not postponed for ever; nothing obliges the user to act
SpecDeepFair == SpecDeep /\ WF_vars(Mount) /\ WF_vars(EffectsPass)

\* a session that takes, picks and deletes photos while it edits
PhotoInit ==
    /\ Start({NoData, Slot("ok", LedgerToday), Slot("ok", LedgerPhotos)})
    /\ urlData = NoData
    /\ savedSettings = "none"

UserCameraCapture == Budget /\ \E c \in CatSet, i \in 1..MaxItems : HandleCameraCapture(c, i)
UserDeletePhoto == Budget /\ \E c \in CatSet, i \in 1..MaxItems, k \in 1..(MaxPhotos + 2) :
                                HandleDeletePhoto(c, i, k)
UserPickFile == Budget /\ \E c \in CatSet, i \in 1..MaxItems : HandlePickFile(c, i)
FileReadEnds == pending # <<>> /\ \E k \in 1..MaxPending : FileLoaded(k)

PhotoNext ==
    \/ Mount
    \/ EffectsPass
    \/ UserAddItem
    \/ UserUpdateItem
    \/ UserDeleteItems
    \/ UserClearAll
    \/ UserUndo
    \/ UserDateSelect
    \/ UserCancel
    \/ UserCameraCapture
    \/ UserDeletePhoto
    \/ UserPickFile
    \/ FileReadEnds

SpecPhoto == PhotoInit /\ [][PhotoNext]_vars

-----------------------------------------------------------------------------
(* The reducer called directly, on ledgers and actions drawn from small sets *)

\* a key that no day record has: what the lookup of an item's category
\* yields when the item is not in the day viewed
NoCategory == "undefined"

\* what an input of the row, or a stored ledger, can hold in a field
QtValues == {"", " ", "2", "0", "-2", "x"}
ContractValues == {"", "C123"}
SerialValues == {"", " ", "SN", "SN123", "SN>>>"}
\* the photo lists of a row after a photo is taken or one is deleted
PhotoValues(item) ==
    {RemoveAt(item.photos, k) : k \in 1..Len(item.photos)}
        \cup (IF Len(item.photos) < MaxPhotos THEN {Append(item.photos, nextId + 1)} ELSE {})

\* a stored ledger whose only filled field is a quantity
LedgerQt ==
    Put(EmptyLedger, Today,
        [c \in CatSet |-> IF c = CATEGORIES[1] THEN <<[BlankItem(1) EXCEPT !.qt = "2"]>>
                          ELSE <<BlankItem(2)>>])

\* a stored ledger of two days
LedgerBoth == Put(LedgerToday, OtherDay, LedgerOther[OtherDay])

ReducerLedgers == {EmptyLedger, LedgerToday, LedgerOther, LedgerBoth, LedgerPhotos}

\* a stored ledger of three days: the last day of February, and the first and
\* the third day of March
LedgerMonths ==
    [key \in {"2024-02-29", "2024-03-01", "2024-03-03"} |->
        LET id == CASE key = "2024-03-01" -> 1 [] key = "2024-03-03" -> 3 [] OTHER -> 5
        IN  [c \in CatSet |-> IF c = CATEGORIES[1] THEN <<StoredItem(id, "SN123")>>
                              ELSE <<BlankItem(id + 1)>>]]

\* the ledgers a load can hand to SET_DATA
LoadedLedgers == {EmptyLedger, LedgerToday, LedgerOther, LedgerBoth, LedgerQt, LedgerMonths}

\* the items { ...item, [field]: value } an edit of a row can produce
EditsOf(item) ==
    ({[item EXCEPT !.qt = v] : v \in QtValues}
        \cup {[item EXCEPT !.contract = v] : v \in ContractValues}
        \cup {[item EXCEPT !.serial = v] : v \in SerialValues}
        \cup {[item EXCEPT !.photos = v] : v \in PhotoValues(item)}) \ {item}

ListAt(L, d, c) == IF d \in DOMAIN L /\ c \in DOMAIN L[d] THEN L[d][c] ELSE <<>>

ReducerInit ==
    /\ variant \in {1, 2, 3}
    /\ pc = "reducer"
    /\ appData \in ReducerLedgers
    /\ history = <<>>
    /\ isRestoring = FALSE
    /\ isReadOnly = FALSE
    /\ autoSave = TRUE
    /\ currentDate = Today
    /\ notifications = <<>>
    /\ confirmation = "none"
    /\ timers = 0
    /\ urlData = NoData
    /\ persisted = NoData
    /\ savedSettings = "none"
    /\ changed = {}
    /\ nextId = FirstId
    /\ steps = 0
    /\ lastOp = "none"
    /\ pushLog = <<>>
    /\ trail = <<>>
    /\ requested = 0
    /\ imported = EmptyLedger
    /\ applied = NoCall
    /\ pending = <<>>
    /\ photoDB = IF variant = 1 THEN PhotoKeys(appData) ELSE {}
    /\ deleting = {}
    /\ heap = NoHeap


\* dataReducer(appData, a), drawing `ids` values from generateId
\* in variant 1 the photo that an UPDATE_ITEM adds was stored before the
\* dispatch, and the reducer itself starts the deletes of DELETE_ITEMS
Call(a, ids) ==
    /\ appData' = dataReducer(appData, a)
    /\ applied' = [act |-> a, pre |-> appData, base |-> nextId]
    /\ photoDB' = IF variant = 1 /\ a.type = "UPDATE_ITEM"
                  THEN photoDB \cup (KeysOf(<<a.item>>) \ PhotoKeys(appData))
                  ELSE photoDB
    /\ deleting' = deleting \cup reducerDeletes(variant, appData, a)
    /\ nextId' = nextId + ids
    /\ steps' = steps + 1
    /\ UNCHANGED <<variant, heap, pending, pc, history, isRestoring, isReadOnly, autoSave, currentDate,
                   notifications, confirmation, timers, urlData, persisted,
                   savedSettings, changed, lastOp, pushLog, trail, requested, imported>>

CallBudget == steps < MaxCalls

CallSetData == CallBudget /\ \E L \in LoadedLedgers : Call(SetData(L), 0)

CallEnsureDay ==
    CallBudget /\ \E d \in DateKeys :
        Call(EnsureDay(d, createEmptyDailyData(nextId)), Len(CATEGORIES))

CallAddItem ==
    CallBudget /\ \E d \in DateKeys, c \in CatSet :
        Call(AddItem(d, c, nextId), Len(CATEGORIES) + 1)

\* an edited copy of a row of the addressed list, or an item that the list
\* does not hold
CallUpdateItem ==
    CallBudget /\ \E d \in DateKeys, c \in CatSet \cup {NoCategory} :
        \E item \in UNION {EditsOf(ListAt(appData, d, c)[i]) :
                               i \in 1..Len(ListAt(appData, d, c))}
                      \cup {StoredItem(nextId + 1, "SN123")} :
            Call(UpdateItem(d, c, item), 1)

CallDeleteItems ==
    CallBudget /\ \E d \in DateKeys, c \in CatSet \cup {NoCategory} :
        \E ids \in {IdsOf(ListAt(appData, d, c)), {0}}
                      \cup {{x} : x \in IdsOf(ListAt(appData, d, c))} :
            Call(DeleteItems(d, c, ids, nextId), 1)

CallClearAll == CallBudget /\ Call(ClearAll, 0)

\* request.onsuccess of a store.delete: the key is gone from the store
DeleteSucceeds ==
    \E key \in deleting :
        /\ photoDB' = photoDB \ {key}
        /\ deleting' = deleting \ {key}
        /\ UNCHANGED <<variant, heap, pc, appData, history, isRestoring, isReadOnly, autoSave,
                       currentDate, notifications, confirmation, timers, urlData, persisted,
                       savedSettings, changed, nextId, steps, lastOp, pushLog, trail,
                       requested, imported, applied, pending>>

ReducerNext ==
    \/ CallSetData
    \/ CallEnsureDay
    \/ CallAddItem
    \/ CallUpdateItem
    \/ CallDeleteItems
    \/ CallClearAll
    \/ DeleteSucceeds

SpecReducer == ReducerInit /\ [][ReducerNext]_vars

-----------------------------------------------------------------------------
(* The ledger as objects.  JavaScript hands objects around by reference: the *)
(* history holds the very object that was the ledger, and an assignment or  *)
(* a push through any reference is seen through every other.  heap.mem is  *)
(* the sequence of objects made so far, an address is an index into it,    *)
(* heap.root is the address of appData and heap.hist the addresses that    *)
(* the history holds.  An object is a ledger (days: date -> address of a   *)
(* day), a day (lists: category -> address of an array) or an array        *)
(* (items).  No code assigns to a field of an item, so items are values.   *)

LedgerObject(days) == [days |-> days, lists |-> <<>>, items |-> <<>>]
DayObject(lists) == [days |-> <<>>, lists |-> lists, items |-> <<>>]
ArrayObject(items) == [days |-> <<>>, lists |-> <<>>, items |-> items]

\* the content that is read through address r
LedgerAt(m, r) ==
    [d \in DOMAIN m[r].days |->
        [c \in DOMAIN m[m[r].days[d]].lists |->
            m[m[m[r].days[d]].lists[c]].items]]

DatesIn(L) == SelectSeq(Calendar, LAMBDA k : k \in DOMAIN L)

\* a day object and its arrays, newly made, holding the lists of rec
NewDay(m, rec) ==
    LET n == Len(CATEGORIES)
        arrays == [j \in 1..n |-> ArrayObject(rec[CATEGORIES[j]])]
        day == DayObject([c \in CatSet |-> Len(m) + CatIndex(c)])
    IN  [mem |-> (m \o arrays) \o <<day>>, at |-> Len(m) + n + 1]

RECURSIVE NewDays(_, _, _)
NewDays(m, L, dates) ==
    IF dates = <<>> THEN [mem |-> m, days |-> EmptyLedger]
    ELSE LET one == NewDay(m, L[Head(dates)])
             rest == NewDays(one.mem, L, Tail(dates))
         IN  [mem |-> rest.mem, days |-> Put(rest.days, Head(dates), one.at)]

\* JSON.parse of the text of L: objects that nothing else refers to
parse(m, L) ==
    LET made == NewDays(m, L, DatesIn(L))
    IN  [mem |-> Append(made.mem, LedgerObject(made.days)),
         root |-> Len(made.mem) + 1]

\* newState = state: the reducer works on the object of the current ledger
jsonCopyIsSameObject(m, r) == [mem |-> m, root |-> r]

\* JSON.parse(JSON.stringify(state))
jsonCopy(m, r) == parse(m, LedgerAt(m, r))

\* { ...state } with newState[date] = dayData: a new ledger object that
\* shares the day objects of state
HeapEnsureDay(m, r, a) ==
    IF a.date \in DOMAIN m[r].days THEN [mem |-> m, root |-> r]
    ELSE LET day == NewDay(m, a.dayData)
             top == LedgerObject(Put(m[r].days, a.date, day.at))
         IN  [mem |-> Append(day.mem, top), root |-> Len(day.mem) + 1]

HeapAddItem(m, r, a) ==
    LET newState == jsonCopy(m, r)
        made == a.date \notin DOMAIN newState.mem[newState.root].days
        day == NewDay(newState.mem, createEmptyDailyData(a.fresh))
        m1 == IF made
              THEN [day.mem EXCEPT ![newState.root].days = Put(@, a.date, day.at)]
              ELSE newState.mem
        id == IF made THEN a.fresh + Len(CATEGORIES) + 1 ELSE a.fresh + 1
        dayData == m1[m1[newState.root].days[a.date]].lists[a.category]
    IN  [mem |-> [m1 EXCEPT ![dayData].items = Append(@, BlankItem(id))],
         root |-> newState.root]

HeapUpdateItem(m, r, a) ==
    LET newState == jsonCopy(m, r)
        m1 == newState.mem
        days == m1[newState.root].days
    IN  IF a.date \notin DOMAIN days \/ a.category \notin DOMAIN m1[days[a.date]].lists
        THEN [mem |-> m1, root |-> r]
        ELSE LET dayData == m1[days[a.date]].lists[a.category]
                 itemIndex == findIndex(m1[dayData].items, a.item.id)
             IN  [mem |-> [m1 EXCEPT ![dayData].items =
                               IF itemIndex > 0 THEN [@ EXCEPT ![itemIndex] = a.item]
                               ELSE Append(@, a.item)],
                  root |-> newState.root]

\* dayData.filter makes a new array, which is assigned to the day of newState
HeapDeleteItems(m, r, a) ==
    LET newState == jsonCopy(m, r)
        m1 == newState.mem
        days == m1[newState.root].days
    IN  IF a.date \notin DOMAIN days \/ a.category \notin DOMAIN m1[days[a.date]].lists
        THEN [mem |-> m1, root |-> r]
        ELSE LET dayData == m1[days[a.date]].lists[a.category]
                 kept == SelectSeq(m1[dayData].items, LAMBDA it : it.id \notin a.itemIds)
                 list == IF Len(kept) = 0 THEN <<BlankItem(a.fresh + 1)>> ELSE kept
             IN  [mem |-> Append([m1 EXCEPT ![days[a.date]].lists[a.category] =
                                      Len(m1) + 1],
                                 ArrayObject(list)),
                  root |-> newState.root]

\* dataReducer on objects; the payload of SET_DATA is an address
heapReducer(m, r, a) ==
    CASE a.type = "SET_DATA" -> [mem |-> m, root |-> a.payload]
      [] a.type = "ENSURE_DAY_DATA" -> HeapEnsureDay(m, r, a)
      [] a.type = "ADD_ITEM" -> HeapAddItem(m, r, a)
      [] a.type = "UPDATE_ITEM" -> HeapUpdateItem(m, r, a)
      [] a.type = "DELETE_ITEMS" -> HeapDeleteItems(m, r, a)
      [] a.type = "CLEAR_ALL_DATA" ->
            [mem |-> Append(m, LedgerObject(EmptyLedger)), root |-> Len(m) + 1]
      [] OTHER -> [mem |-> m, root |-> r]

HeapLedgers == {EmptyLedger, LedgerToday, LedgerPhotos}

\* the session after the stored ledger was parsed, editing allowed; history
\* keeps, by value, what each snapshot held when it was pushed
HeapInit ==
    /\ variant \in {1, 2, 3}
    /\ pc = "heap"
    /\ appData \in HeapLedgers
    /\ heap = [mem |-> parse(<<>>, appData).mem,
               root |-> parse(<<>>, appData).root,
               hist |-> <<>>]
    /\ history = <<>>
    /\ isRestoring = FALSE
    /\ isReadOnly = FALSE
    /\ autoSave = TRUE
    /\ currentDate = Today
    /\ notifications = <<>>
    /\ confirmation = "none"
    /\ timers = 0
    /\ urlData = NoData
    /\ persisted = NoData
    /\ savedSettings = "none"
    /\ changed = {}
    /\ nextId = FirstId
    /\ steps = 0
    /\ lastOp = "none"
    /\ pushLog = <<>>
    /\ trail = <<>>
    /\ requested = 0
    /\ imported = EmptyLedger
    /\ applied = NoCall
    /\ pending = <<>>
    /\ photoDB = IF variant = 1 THEN PhotoKeys(appData) ELSE {}
    /\ deleting = {}

\* dispatch(a) on the objects, after `pushed` snapshots of the current
\* ledger went into the history
HeapCall(a, ids, pushed) ==
    /\ heap' = [mem |-> heapReducer(heap.mem, heap.root, a).mem,
                root |-> heapReducer(heap.mem, heap.root, a).root,
                hist |-> PushHistory(heap.hist, heap.root, pushed)]
    /\ history' = PushHistory(history, appData, pushed)
    /\ appData' = LedgerAt(heap'.mem, heap'.root)
    /\ applied' = [act |-> a, pre |-> appData, base |-> nextId]
    /\ nextId' = nextId + ids
    /\ steps' = steps + 1
    /\ lastOp' = "dispatch"
    /\ deleting' = deleting \cup reducerDeletes(variant, appData, a)
    /\ UNCHANGED <<variant, pc, isRestoring, isReadOnly, autoSave, currentDate,
                   notifications, confirmation, timers, urlData, persisted,
                   savedSettings, changed, pushLog, trail, requested,
                   imported, pending, photoDB>>

HeapBudget == steps < MaxHeapCalls

\* the effect on currentDate dispatches without the history
HeapViewDay ==
    HeapBudget /\ \E d \in DateKeys :
        HeapCall(EnsureDay(d, createEmptyDailyData(nextId)), Len(CATEGORIES), 0)

HeapAdd ==
    HeapBudget /\ \E d \in DateKeys, c \in CatSet :
        HeapCall(AddItem(d, c, nextId), Len(CATEGORIES) + 1, 1)

\* the serial of a row typed or cleared
HeapUpdate ==
    HeapBudget /\ \E d \in DOMAIN appData, c \in CatSet :
        \E i \in 1..Len(appData[d][c]) :
            HeapCall(UpdateItem(d, c, [appData[d][c][i] EXCEPT
                         !.serial = IF @ = "" THEN "SN123" ELSE ""]), 0, 1)

HeapDelete ==
    HeapBudget /\ \E d \in DOMAIN appData, c \in CatSet :
        \E ids \in {IdsOf(appData[d][c])} \cup {{x} : x \in IdsOf(appData[d][c])} :
            HeapCall(DeleteItems(d, c, ids, nextId), 1, 1)

HeapClearAll == HeapBudget /\ HeapCall(ClearAll, 0, 1)

\* undo: SET_DATA with history[0]; variants 2 and 3 also drop it
HeapUndo ==
    /\ HeapBudget
    /\ heap.hist # <<>>
    /\ heap' = [mem |-> heapReducer(heap.mem, heap.root, SetData(heap.hist[1])).mem,
                root |-> heapReducer(heap.mem, heap.root, SetData(heap.hist[1])).root,
                hist |-> IF variant = 1 THEN heap.hist ELSE Tail(heap.hist)]
    /\ history' = IF variant = 1 THEN history ELSE Tail(history)
    /\ appData' = LedgerAt(heap'.mem, heap'.root)
    /\ lastOp' = "undo"
    /\ steps' = steps + 1
    /\ UNCHANGED <<variant, pc, isRestoring, isReadOnly, autoSave, currentDate,
                   notifications, confirmation, timers, urlData, persisted,
                   savedSettings, changed, nextId, pushLog, trail, requested,
                   imported, applied, pending, photoDB, deleting>>

HeapNext ==
    \/ HeapViewDay
    \/ HeapAdd
    \/ HeapUpdate
    \/ HeapDelete
    \/ HeapClearAll
    \/ HeapUndo
    \/ DeleteSucceeds

SpecHeap == HeapInit /\ [][HeapNext]_vars

-----------------------------------------------------------------------------
(* Properties *)

WellFormed(L) ==
    \A d \in DOMAIN L :
        /\ DOMAIN L[d] = CatSet
        /\ \A c \in CatSet : Len(L[d][c]) >= 1

\* C3: every stored day record, in the ledger and in every snapshot of the
\* undo history, has every category, and every category list has at least
\* one item.
C3_DayRecordsComplete ==
    /\ WellFormed(appData)
    /\ \A i \in 1..Len(history) : WellFormed(history[i])

\* a delete emptied a list and the placeholder row was put back
C3_Witness ==
    /\ lastOp = "deleteAll"
    /\ currentDate \in DOMAIN appData
    /\ \E c \in CatSet : Len(Rows(c)) = 1 /\ Rows(c)[1].id > FirstId
    /\ history # <<>>

\* C1: an undo restores the ledger to what it was before the latest mutation
\* that has not been undone yet, so that N undos in a row go back N
\* mutations; with nothing left to undo, the undo leaves the ledger as it is.
C1_UndoStepsBack ==
    [][(steps' = steps + 1 /\ lastOp' \in {"undo", "undoEmpty"}) =>
          IF trail # <<>>
          THEN appData' = Head(trail)
          ELSE appData' = appData]_vars

\* C2: while the session is read-only the ledger is the imported snapshot and
\* the undo history is empty, whatever is dispatched and whichever day is viewed.
C2_ReadOnlyKeepsSnapshot ==
    isReadOnly => (appData = imported /\ history = <<>>)

\* C4: the undo history never holds more than 10 snapshots; a push puts the
\* new snapshots in front, keeps the older ones behind them in their order,
\* and drops from the far end what no longer fits.
C4_HistoryBounded ==
    /\ [](Len(history) <= HistoryLimit)
    /\ [][(steps' = steps + 1 /\ pushLog' # <<>>) =>
            LET n == Len(pushLog')
                keep == IF Len(history) + n <= HistoryLimit THEN Len(history)
                        ELSE HistoryLimit - n
            IN  /\ Len(history') = n + keep
                /\ \A i \in 1..n : history'[i] = pushLog'[i].snap
                /\ \A i \in 1..keep : history'[n + i] = history[i]]_vars

\* an 11th snapshot was pushed: the first snapshot of the session, in which
\* the edited field was still empty, is no longer the oldest one held
C4_Witness ==
    /\ Len(history) = HistoryLimit
    /\ lastOp = "update"
    /\ steps > HistoryLimit
    /\ history[HistoryLimit][Today][CATEGORIES[1]][1].serial # ""

\* C5: every snapshot pushed by a handler is the ledger to which the mutation
\* it accompanies was applied.
C5_SnapshotIsPreState ==
    \A i \in 1..Len(pushLog) : pushLog[i].snap = pushLog[i].pre

\* C6: ENSURE_DAY_DATA leaves a day that is present as it is: applied twice,
\* with any two blank records, it gives what the first application gave; on
\* a ledger that holds the day it gives the ledger back; and the ledger
\* loaded at startup keeps every day it had after the ensure for today.
C6_EnsureDayKeepsDay ==
    /\ [](\A d \in DateKeys :
            \A b1, b2 \in {createEmptyDailyData(nextId),
                           createEmptyDailyData(nextId + Len(CATEGORIES))} :
                LET once == dataReducer(appData, EnsureDay(d, b1))
                IN  /\ dataReducer(once, EnsureDay(d, b2)) = once
                    /\ d \in DOMAIN appData => once = appData)
    /\ [][(pc = "mount" /\ pc' # "crashed") =>
            \A i \in 1..Len(LoadQueue(variant, urlData, persisted)) :
                LET L == LoadQueue(variant, urlData, persisted)[i].payload
                IN  \A d \in DOMAIN L : d \in DOMAIN appData' /\ appData'[d] = L[d]]_vars

\* the stored ledger held today, was loaded, and the ensure for today ran
C6_Witness ==
    /\ lastOp = "mount"
    /\ pc # "crashed"
    /\ persisted.tag = "ok"
    /\ appData = LedgerToday
    /\ ~isReadOnly

AllIds(L) == UNION {IdsOf(L[d][c]) : d \in DOMAIN L, c \in CatSet}

\* C7: DELETE_ITEMS with an id set that holds every id of a category list
\* leaves that list with exactly one item, whose id is none of the deleted
\* ones and which is inactive.
C7_DeleteAllLeavesBlank ==
    \A d \in DOMAIN appData, c \in CatSet :
        \A more \in {{}, AllIds(appData)} \cup {{x} : x \in AllIds(appData)} :
            LET ids == IdsOf(appData[d][c]) \cup more
                list == dataReducer(appData, DeleteItems(d, c, ids, nextId))[d][c]
            IN  /\ Len(list) = 1
                /\ list[1].id \notin ids
                /\ ~isItemActive(variant, list[1])

\* a confirmed delete removed every row of a list that held a filled-in row
C7_Witness ==
    /\ lastOp = "deleteAll"
    /\ history # <<>>
    /\ \E c \in CatSet :
          /\ \E i \in 1..Len(Head(history)[currentDate][c]) :
                isItemActive(variant, Head(history)[currentDate][c][i])
          /\ Len(Rows(c)) = 1
          /\ ~isItemActive(variant, Rows(c)[1])
          /\ Rows(c)[1].id \notin IdsOf(Head(history)[currentDate][c])

RequestCount(ns) == Cardinality({i \in 1..Len(ns) : ns[i].type = "request"})

\* C8: the session leaves read-only only in a step that invokes the bound
\* action of a request notification, which that step removes from the list;
\* and request notifications exist only for requests the user confirmed.
C8_LeavesReadOnlyByGrant ==
    /\ [][(isReadOnly /\ ~isReadOnly') =>
            /\ lastOp' = "grant"
            /\ requested > 0
            /\ \E i \in 1..Len(notifications) :
                  /\ notifications[i].type = "request"
                  /\ \A j \in 1..Len(notifications') :
                        notifications'[j].id # notifications[i].id]_vars
    /\ [](RequestCount(notifications) + timers <= requested)

\* a session that imported a snapshot was granted edit access
C8_Witness ==
    /\ lastOp = "grant"
    /\ ~isReadOnly
    /\ imported # EmptyLedger
    /\ requested > 0

\* C9: no step taken while the session is read-only, nor the step that makes
\* it read-only, writes the slot 'equipmentData'.
C9_ReadOnlyNeverPersists ==
    [][(isReadOnly \/ isReadOnly') => persisted' = persisted]_vars

\* the autosave effect ran in a read-only session with autosave switched on
\* again, over a ledger that differs from the stored one
C9_Witness ==
    /\ isReadOnly
    /\ lastOp = "toggle"
    /\ pc = "idle"
    /\ autoSave
    /\ DOMAIN appData # {}
    /\ persisted # Slot("ok", appData)

\* C10 (variant 1, the build with the autosave setting): once the effects
\* have run, an editable session with autosave on has the current ledger in
\* the slot, after ClearAll as well; with autosave off no step writes the slot.
C10_AutosaveFollowsSetting ==
    /\ []((variant = 1 /\ pc = "idle" /\ ~isReadOnly /\ autoSave) =>
             persisted = Slot("ok", appData))
    /\ [][(variant = 1 /\ ~autoSave) => persisted' = persisted]_vars

\* ClearAll was committed and the effects that followed it have run
C10_Witness ==
    /\ variant = 1
    /\ lastOp = "clear"
    /\ pc = "idle"
    /\ autoSave
    /\ ~isReadOnly
    /\ history # <<>>
    /\ Head(history) # appData
    /\ persisted = Slot("ok", appData)

-----------------------------------------------------------------------------
(* Properties of the reducer, over the calls of SpecReducer *)

Addressed(call) ==
    /\ call.act.date \in DOMAIN call.pre
    /\ call.act.category \in DOMAIN call.pre[call.act.date]

\* every list but the addressed one is what it was before the call
OthersKept(call, L) ==
    /\ DOMAIN L = DOMAIN call.pre
    /\ \A d \in DOMAIN L :
          /\ DOMAIN L[d] = DOMAIN call.pre[d]
          /\ \A c \in DOMAIN L[d] :
                (d # call.act.date \/ c # call.act.category) => L[d][c] = call.pre[d][c]

\* C15: UPDATE_ITEM on a day and category that exist replaces the item that
\* has the id of the payload, at its position, and keeps the length and the
\* order of the list; appends the payload when no item has the id; and
\* leaves every other category and day as they were.
C15_UpdateItemUpserts ==
    (applied.act.type = "UPDATE_ITEM" /\ Addressed(applied)) =>
        LET item == applied.act.item
            old == applied.pre[applied.act.date][applied.act.category]
            new == appData[applied.act.date][applied.act.category]
        IN  /\ OthersKept(applied, appData)
            /\ IF \E k \in 1..Len(old) : old[k].id = item.id
               THEN /\ Len(new) = Len(old)
                    /\ \A k \in 1..Len(old) :
                          new[k] = IF old[k].id = item.id THEN item ELSE old[k]
               ELSE new = old \o <<item>>

\* the second row of a list of two was edited
C15_Witness ==
    /\ applied.act.type = "UPDATE_ITEM"
    /\ Addressed(applied)
    /\ LET old == applied.pre[applied.act.date][applied.act.category]
           new == appData[applied.act.date][applied.act.category]
       IN  /\ Len(old) = 2
           /\ old[2].id = applied.act.item.id
           /\ new[2] = applied.act.item
           /\ new[2] # old[2]
           /\ new[1] = old[1]

\* C16: UPDATE_ITEM and DELETE_ITEMS addressed to a day the ledger does not
\* have, or to a category the day record does not have, give the ledger back.
C16_MissingTargetIsNoOp ==
    (applied.act.type \in {"UPDATE_ITEM", "DELETE_ITEMS"} /\ ~Addressed(applied)) =>
        appData = applied.pre

\* an update was addressed to a day that a ledger with other days lacks
C16_Witness ==
    /\ applied.act.type = "UPDATE_ITEM"
    /\ applied.act.date \notin DOMAIN applied.pre
    /\ applied.pre # EmptyLedger
    /\ appData = applied.pre

IsBlank(item) ==
    item.qt = "" /\ item.contract = "" /\ item.serial = "" /\ item.photos = <<>>

\* C17: ADD_ITEM puts one blank, inactive item, with an id that no item of
\* the ledger had, last in the named list; the items the list had stay in
\* front of it in their order; a day that was absent is created with every
\* category; every other list and day is as it was.
C17_AddItemAppendsBlank ==
    applied.act.type = "ADD_ITEM" =>
        LET d == applied.act.date
            c == applied.act.category
            pre == applied.pre
        IN  /\ DOMAIN appData = DOMAIN pre \cup {d}
            /\ DOMAIN appData[d] = CatSet
            /\ \A e \in DOMAIN pre \ {d} : appData[e] = pre[e]
            /\ LET new == appData[d][c]
                   last == new[Len(new)]
               IN  /\ IsBlank(last)
                   /\ \A v \in {1, 2, 3} : ~isItemActive(v, last)
                   /\ last.id \notin AllIds(pre)
                   /\ \A k \in 1..(Len(new) - 1) : new[k].id # last.id
                   /\ IF d \in DOMAIN pre
                      THEN /\ new = pre[d][c] \o <<last>>
                           /\ \A o \in CatSet \ {c} : appData[d][o] = pre[d][o]
                      ELSE /\ Len(new) = 2
                           /\ IsBlank(new[1])
                           /\ \A o \in CatSet \ {c} :
                                 /\ Len(appData[d][o]) = 1
                                 /\ IsBlank(appData[d][o][1])
                                 /\ appData[d][o][1].id # last.id

\* a row was added to a day that the ledger, which held another day, lacked
C17_Witness ==
    /\ applied.act.type = "ADD_ITEM"
    /\ applied.act.date \notin DOMAIN applied.pre
    /\ applied.pre # EmptyLedger
    /\ Len(appData[applied.act.date][applied.act.category]) = 2

-----------------------------------------------------------------------------
(* Properties of the pure functions, over the ledgers SpecReducer reaches *)

Lists(L) == {L[d][c] : d \in DOMAIN L, c \in CatSet}
Items(L) == UNION {{list[i] : i \in 1..Len(list)} : list \in Lists(L)}

Blank(s) == s \in {"", " "}

\* C19 as stated: in every build an item is active exactly when its contract
\* code, its serial code or its quantity is not blank, or it has a photo.
C19_ActiveIffAnyField ==
    \A item \in Items(appData) :
        isItemActive(variant, item) <=>
            (~Blank(item.contract) \/ ~Blank(item.serial) \/ ~Blank(item.qt)
                \/ item.photos # <<>>)

\* C19 as amended: an item is active exactly when its contract code or its
\* serial code is not blank, or it has a photo, or, in the builds that have
\* a quantity column (2 and 3), its quantity is not blank; a blank item is
\* inactive in every build.
C19_ActiveByBuild ==
    /\ \A item \in Items(appData) :
          isItemActive(variant, item) <=>
              (~Blank(item.contract) \/ ~Blank(item.serial) \/ item.photos # <<>>
                  \/ (variant \in {2, 3} /\ ~Blank(item.qt)))
    /\ \A item \in Items(appData) : IsBlank(item) => ~isItemActive(variant, item)

\* a row was given a quantity and nothing else, in a build with the column
C19_Witness ==
    /\ variant = 2
    /\ applied.act.type = "UPDATE_ITEM"
    /\ applied.act.item = [BlankItem(applied.act.item.id) EXCEPT !.qt = "2"]
    /\ applied.act.item \in Items(appData)
    /\ isItemActive(variant, applied.act.item)

ActiveIn(v, list) == {i \in 1..Len(list) : isItemActive(v, list[i])}

\* the quantity a string states, when it states one
Stated(s) == CASE s = "2" -> {2} [] s = "0" -> {0} [] s = "-2" -> {0 - 2} [] OTHER -> {}

QuantityOrOne(list) == [i \in 1..Len(list) |->
    IF Stated(list[i].qt) = {} THEN 1 ELSE CHOOSE n \in Stated(list[i].qt) : TRUE]

PositiveOrOne(list) == [i \in 1..Len(list) |->
    IF \E n \in Stated(list[i].qt) : n >= 1
    THEN CHOOSE n \in Stated(list[i].qt) : TRUE ELSE 1]

-----------------------------------------------------------------------------
(* Properties of undo and of the load at startup *)

\* C11: in the builds that mark a restore (isRestoring), the effects that
\* run after an undo restored a snapshot do not write the slot: until the
\* user does something else the slot holds what it held before the undo.
C11_RestoreNotPersisted ==
    [][(variant \in {2, 3} /\ lastOp = "undo" /\ pc = "effects" /\ lastOp' = lastOp)
          => persisted' = persisted]_vars

\* the days of a stored ledger are in L as they were stored
Holds(L, slot) ==
    slot.tag = "ok" =>
        \A d \in DOMAIN slot.data : d \in DOMAIN L /\ L[d] = slot.data[d]

\* C12: a share token that cannot be decoded counts as no token: the mount
\* does not fail and does not make the session read-only, the ledger it
\* commits holds the stored ledger, and before the user has done anything
\* the slot still holds the stored ledger.
C12_BadTokenIsNoToken ==
    /\ [][(pc = "mount" /\ urlData.tag = "bad") =>
            /\ pc' # "crashed"
            /\ ~isReadOnly'
            /\ Holds(appData', persisted)]_vars
    /\ [][(urlData.tag = "bad" /\ steps' = 0 /\ persisted.tag = "ok") =>
            /\ persisted'.tag = "ok"
            /\ Holds(persisted'.data, persisted)]_vars

\* C13: a stored ledger that cannot be parsed counts as absent: the mount
\* that reads it does not fail, and commits the ledger of a first start,
\* which holds the day viewed and nothing else.
C13_BadSlotIsNoSlot ==
    [][(pc = "mount" /\ persisted.tag = "bad" /\ urlData.tag = "none") =>
          /\ pc' # "crashed"
          /\ DOMAIN appData' = {currentDate}
          /\ \A c \in CatSet :
                Len(appData'[currentDate][c]) = 1 /\ IsBlank(appData'[currentDate][c][1])]_vars

\* C14: an undo with an empty history tells the user that there is nothing
\* to undo and leaves the ledger, the history and the slot as they are.
C14_EmptyUndoReports ==
    [][(steps' = steps + 1 /\ lastOp' = "undoEmpty") =>
          /\ confirmation' = "noUndo"
          /\ appData' = appData
          /\ history' = history
          /\ persisted' = persisted
          /\ pc' # "crashed"]_vars

-----------------------------------------------------------------------------
(* Properties of the item ids, over the sessions of SpecPhoto *)

IdSeq(list) == [i \in 1..Len(list) |-> list[i].id]

IsPrefix(s, t) == Len(s) <= Len(t) /\ SubSeq(t, 1, Len(s)) = s

\* C18: no two items of the ledger, in whatever days and categories, have
\* the same id; a step that updates an item (an edit of a field, a photo
\* taken or deleted) leaves the ids of every list as they are, and the late
\* update of a file read leaves them in place, adding at most its own item.
C18_IdsUniqueAndStable ==
    /\ [](\A d1, d2 \in DOMAIN appData : \A c1, c2 \in CatSet :
            \A i \in 1..Len(appData[d1][c1]), j \in 1..Len(appData[d2][c2]) :
                appData[d1][c1][i].id = appData[d2][c2][j].id
                    => (d1 = d2 /\ c1 = c2 /\ i = j))
    /\ [][(lastOp' \in {"update", "capture", "photoDelete"} /\ steps' = steps + 1) =>
            /\ DOMAIN appData' = DOMAIN appData
            /\ \A d \in DOMAIN appData : \A c \in CatSet :
                  IdSeq(appData'[d][c]) = IdSeq(appData[d][c])]_vars
    /\ [][(lastOp' = "loaded" /\ Len(pending') < Len(pending)) =>
            /\ DOMAIN appData' = DOMAIN appData
            /\ \A d \in DOMAIN appData : \A c \in CatSet :
                  IsPrefix(IdSeq(appData[d][c]), IdSeq(appData'[d][c]))]_vars

\* a file read ended after the ledger was reset: its item, gone from the
\* ledger, was put back behind the blank row of the re-created day
C18_Witness ==
    /\ lastOp = "loaded"
    /\ \E c \in CatSet :
          /\ Len(Rows(c)) = 2
          /\ IsBlank(Rows(c)[1])
          /\ Rows(c)[2].photos # <<>>
          /\ Rows(c)[2].id < Rows(c)[1].id

-----------------------------------------------------------------------------
(* Properties of the totals of a day and of a month *)

\* C21: for every day record the day total shown equals the sum of the
\* per-category totals shown for the same record, whatever the quantities
\* of its items are (zero and unparsable quantities included).
C21_DayTotalIsSumOfCategories ==
    \A d \in DOMAIN appData :
        calculateTotal(variant, appData[d]) = dayGrandTotal(variant, appData[d], 1)

\* the total shown for each stored day
DayTotals(v, L) == [key \in DOMAIN L |-> calculateTotal(v, L[key])]

SameMonth(key, anchor) == YearOf(key) = YearOf(anchor) /\ MonthOf(key) = MonthOf(anchor)

\* C22 as stated: the month total at an anchor day is the sum of the day
\* totals of the stored days of the anchor's year and month whose
\* day-of-month is at most the anchor's; later days of the month and days of
\* other months add nothing.
C22_MonthTotalToAnchorDay ==
    \A anchor \in CalendarSet :
        monthTotal(variant, appData, anchor)
            = SumOver({key \in DOMAIN appData :
                          SameMonth(key, anchor) /\ DayOf(key) <= DayOf(anchor)},
                      DayTotals(variant, appData))

\* C22 as amended: the month total at an anchor day is the sum of the day
\* totals of every stored day of the anchor's year and month, the days after
\* the anchor day included; days of other months add nothing.
C22_MonthTotalWholeMonth ==
    \A anchor \in CalendarSet :
        monthTotal(variant, appData, anchor)
            = SumOver({key \in DOMAIN appData : SameMonth(key, anchor)},
                      DayTotals(variant, appData))

\* the ledger of three days is loaded: seen from the first of March the
\* month total counts the first and the third of March, not February
C22_Witness ==
    /\ applied.act.type = "SET_DATA"
    /\ DOMAIN appData = {"2024-02-29", "2024-03-01", "2024-03-03"}
    /\ \A key \in DOMAIN appData : calculateTotal(variant, appData[key]) = 1
    /\ monthTotal(variant, appData, "2024-03-01") = 2
    /\ monthTotal(variant, appData, "2024-02-29") = 1

-----------------------------------------------------------------------------
(* Properties of the range handed to the export *)

\* the dates the export can be opened on: a day picked in the calendar, or
\* the time at which the session started
ExportDates(zone) ==
    UNION {DatesNow(zone, i) \cup {DateAtMidnight(zone, YearOf(Calendar[i]),
                                                  MonthOf(Calendar[i]), DayOf(Calendar[i]))} :
              i \in 2..(Len(Calendar) - 1)}

\* the active items of category cat of the stored days of the anchor's month
\* up to the anchor day, from position i of the calendar on, in day order
RECURSIVE ActiveToAnchor(_, _, _, _, _)
ActiveToAnchor(v, L, anchor, cat, i) ==
    IF i > Len(Calendar) THEN <<>>
    ELSE (IF /\ Calendar[i] \in DOMAIN L
             /\ SameMonth(Calendar[i], anchor)
             /\ DayOf(Calendar[i]) <= DayOf(anchor)
          THEN SelectSeq(L[Calendar[i]][cat], LAMBDA item : isItemActive(v, item))
          ELSE <<>>) \o ActiveToAnchor(v, L, anchor, cat, i + 1)

\* C23: with scope month the range holds, per category, exactly the active
\* items of the stored days 1 to the anchor day of the anchor's month, in day
\* order and in each day's item order, and nothing of later days, of other
\* months or inactive; with scope day it is the stored record of the anchor
\* day, or a blank record when the day is absent.  The anchor day is the day
\* the session shows for the date, getFormattedDate(currentDate).
C23_RangeIsMonthToAnchor ==
    variant \in {1, 3} =>
        \A zone \in Zones : \A date \in ExportDates(zone) :
            LET anchor == getFormattedDate(date)
                month == getDataInRange(variant, zone, appData, date, "month", nextId)
                day == getDataInRange(variant, zone, appData, date, "day", nextId)
            IN  /\ \A cat \in CatSet :
                      month[cat] = ActiveToAnchor(variant, appData, anchor, cat, 1)
                /\ IF anchor \in DOMAIN appData
                   THEN day = appData[anchor]
                   ELSE \A cat \in CatSet : Len(day[cat]) = 1 /\ IsBlank(day[cat][1])

-----------------------------------------------------------------------------
(* Properties of the duplicate detector (variant 1) *)

\* the values a row hands to checkDuplicate
CodeValues == ContractValues \cup SerialValues \cup {"SN456"}

\* C24: isDuplicate(ledger, value, excludeId) is true exactly when value has
\* at least 3 characters and some item of any day and category, with an id
\* other than excludeId, has value as its contract or as its serial; it is
\* false for every shorter value, and an item is no duplicate of itself.
C24_DuplicateIffOtherItemHolds ==
    variant = 1 =>
        \A value \in CodeValues : \A excludeId \in AllIds(appData) \cup {0} :
            checkDuplicate(appData, value, excludeId)
                <=> /\ Length(value) >= 3
                    /\ \E item \in Items(appData) :
                          /\ item.id # excludeId
                          /\ value \in {item.contract, item.serial}

\* one row holds SN123 and another a serial of two characters: SN123 is a
\* duplicate for the other row and not for the row that holds it, and the
\* short serial is no duplicate although a row holds it
C24_Witness ==
    /\ variant = 1
    /\ applied.act.type = "UPDATE_ITEM"
    /\ \E own \in Items(appData) : \E other \in Items(appData) :
          /\ own.serial = "SN123" /\ other.serial = "SN"
          /\ ~checkDuplicate(appData, "SN123", own.id)
          /\ checkDuplicate(appData, "SN123", other.id)
          /\ ~checkDuplicate(appData, "SN", own.id)

-----------------------------------------------------------------------------
(* Properties of the photo store (variant 1) *)

\* the rows that a DELETE_ITEMS call removed from, and kept in, its list
RemovedBy(call) ==
    SelectSeq(ListAt(call.pre, call.act.date, call.act.category),
              LAMBDA item : item.id \in call.act.itemIds)

\* C25: DeleteItems issues a photo-store delete for every photo reference of
\* every item it removes and for no photo reference of an item it keeps, and
\* once those deletes have completed none of the removed keys is in the
\* store.  (Variant 1 is the build with a photo store.)
C25_DeleteItemsDeletesPhotos ==
    /\ [][(variant = 1 /\ applied' # applied /\ applied'.act.type = "DELETE_ITEMS")
             => /\ deleting' = deleting \cup KeysOf(RemovedBy(applied'))
                /\ (deleting' \ deleting) \cap PhotoKeys(appData') = {}
                /\ photoDB' = photoDB]_vars
    /\ [](variant = 1 /\ applied.act.type = "DELETE_ITEMS"
             => \A key \in KeysOf(RemovedBy(applied)) :
                    key \in deleting \/ key \notin photoDB)

\* a row with three photos was deleted from a list whose other row has a
\* photo; the deletes have completed: the three keys are gone, the fourth
\* is still stored
C25_Witness ==
    /\ variant = 1
    /\ applied.act.type = "DELETE_ITEMS"
    /\ Cardinality(KeysOf(RemovedBy(applied))) = 3
    /\ deleting = {}
    /\ KeysOf(RemovedBy(applied)) \cap photoDB = {}
    /\ PhotoKeys(appData) # {}
    /\ PhotoKeys(appData) \subseteq photoDB

\* the ledger L with photo k of row i of list c of day d removed
WithoutPhoto(L, d, c, i, k) ==
    [L EXCEPT ![d][c][i].photos =
        [j \in 1..(Len(@) - 1) |-> IF j < k THEN @[j] ELSE @[j + 1]]]

\* the step of a confirmed photo delete
PhotoDeleteStep == lastOp' = "photoDelete" /\ steps' = steps + 1

\* C26 as stated: deleting one photo removes the reference at the chosen
\* position and nothing else of the ledger, the other references keeping
\* their order, and a delete of exactly that one blob is issued to the photo
\* store.
C26_PhotoDeleteDeletesBlob ==
    [][PhotoDeleteStep =>
          \E d \in DOMAIN appData : \E c \in CatSet : \E i \in 1..Len(appData[d][c]) :
              \E k \in 1..Len(appData[d][c][i].photos) :
                  /\ appData' = WithoutPhoto(appData, d, c, i, k)
                  /\ deleting' \ deleting = {appData[d][c][i].photos[k]}]_vars

\* C26 as amended: in the builds that let the user delete a photo (2 and 3)
\* the photos are held in the item itself; deleting one removes the entry at
\* the chosen position and nothing else of the ledger, the other entries
\* keeping their order, and the photo store is not involved.
C26_PhotoDeleteRemovesEntry ==
    [][PhotoDeleteStep =>
          /\ variant \in {2, 3}
          /\ photoDB' = photoDB /\ deleting' = deleting
          /\ \E c \in CatSet : \E i \in 1..Len(Rows(c)) :
                \E k \in 1..Len(Rows(c)[i].photos) :
                    appData' = WithoutPhoto(appData, currentDate, c, i, k)]_vars

\* the second of three photos of a row was deleted
C26_Witness ==
    /\ lastOp = "photoDelete"
    /\ \E c \in CatSet : \E i \in 1..Len(Rows(c)) : Rows(c)[i].photos = <<4, 6>>

-----------------------------------------------------------------------------
(* Properties of the share token and of the stored ledger (round trips) *)

\* C27: a ledger exported as a share token and imported from that token
\* gives a read-only session whose ledger equals the exported one; and the
\* ledger loaded from the slot at startup equals the ledger last written.
C27_RoundTrips ==
    /\ variant = 1 =>
          LET url == decode(get(btoa(stringify(appData))))
          IN  /\ url = Slot("ok", appData)
              /\ LoadQueue(variant, url, NoData) = <<SetData(appData)>>
    /\ LoadQueue(variant, NoData, savedSlot(appData)) = <<SetData(appData)>>


\* C28: a snapshot held in the undo history is never altered by later
\* operations: whatever EnsureDay, AddItem, UpdateItem, DeleteItems and
\* ClearAll did since, every object that the history refers to still reads
\* as the ledger that was pushed, and an undo puts exactly that content back
C28_SnapshotKeepsContent ==
    /\ [](/\ Len(heap.hist) = Len(history)
          /\ \A i \in 1..Len(heap.hist) :
                LedgerAt(heap.mem, heap.hist[i]) = history[i])
    /\ [][(pc = "heap" /\ lastOp' = "undo" /\ steps' = steps + 1)
             => appData' = history[1]]_vars

\* three snapshots are held, and the list that the last dispatch updated
\* reads differently in the oldest of them
C28_Witness ==
    /\ pc = "heap"
    /\ Len(history) >= 3
    /\ applied.act.type = "UPDATE_ITEM"
    /\ applied.act.date \in DOMAIN history[Len(history)]
    /\ history[Len(history)][applied.act.date][applied.act.category]
            # appData[applied.act.date][applied.act.category]


\* the handlers that commit a mutation of the ledger
MutationOps == {"add", "update", "delete", "deleteAll", "clear"}

\* C29: the suppression of the autosave that an undo sets is one-shot: once
\* an undo has happened, every mutation committed afterwards (with the
\* autosave setting on) is followed by a state in which the slot holds the
\* current ledger.
C29_MutationAfterUndoIsPersisted ==
    [](lastOp = "undo" =>
         []((lastOp \in MutationOps /\ (variant = 1 => autoSave))
               => <>(persisted = Slot("ok", appData))))


\* C30: a late approval is not acted on after the session has become
\* editable: while the session is editable no step adds a request
\* notification to the list, and the list holds no request notification,
\* however the requests, the expiries of their timers and the grants
\* interleave.
C30_NoRequestOnceEditable ==
    /\ [][(~isReadOnly /\ Len(notifications') > Len(notifications))
             => notifications'[1].type # "request"]_vars
    /\ [](~isReadOnly =>
             \A i \in 1..Len(notifications) : notifications[i].type # "request")


\* the continuation of the k-th running file read resumes in this step and
\* dispatches its UPDATE_ITEM
Resumes(k) ==
    /\ k \in 1..Len(pending)
    /\ lastOp' = "loaded"
    /\ pending' = SubSeq(pending, 1, k - 1) \o SubSeq(pending, k + 1, Len(pending))
    /\ ~pending[k].isReadOnly

\* C31: the continuations of photo additions do not race: when one resumes
\* and dispatches its UpdateItem, the item keeps every photo key it held just
\* before (those that other additions committed meanwhile included) and
\* gains the new key, and the fields of the item are as they were committed.
C31_PhotoAdditionsDoNotRace ==
    [][\A k \in 1..MaxPending :
          LET p == pending[k]
              j == findIndex(ListAt(appData, p.date, p.category), p.item.id)
              old == appData[p.date][p.category][j]
              new == appData'[p.date][p.category][j]
          IN  (Resumes(k) /\ j > 0) =>
                 /\ KeysOf(<<old>>) \subseteq KeysOf(<<new>>)
                 /\ p.item.photos[Len(p.item.photos)] \in KeysOf(<<new>>)
                 /\ new.serial = old.serial
                 /\ new.contract = old.contract
                 /\ new.qt = old.qt]_vars


\* the session runs and edits are allowed
Editable == pc \in {"idle", "effects"} /\ ~isReadOnly

\* the record of day d is the blank record: every category, one blank row
BlankDay(L, d) ==
    /\ d \in DOMAIN L
    /\ DOMAIN L[d] = CatSet
    /\ \A c \in CatSet : Len(L[d][c]) = 1 /\ IsBlank(L[d][c][1])

\* C32: lazy day creation.  While the session is editable a viewed day
\* without a record gets one; the record that the effects insert is the
\* blank record of the viewed day and the insertion leaves the undo history
\* alone; and a read-only session holds no day record that was created for
\* a viewed day: its days are those of the imported ledger.
C32_LazyDayCreation ==
    /\ (Editable /\ currentDate \notin DOMAIN appData)
          ~> (currentDate \in DOMAIN appData)
    /\ [][(pc = "effects" /\ DOMAIN appData' # DOMAIN appData) =>
             /\ DOMAIN appData' = DOMAIN appData \cup {currentDate}
             /\ BlankDay(appData', currentDate)
             /\ history' = history]_vars
    /\ [](isReadOnly => DOMAIN appData \subseteq DOMAIN imported)


\* the photo keys that the ledger, a snapshot of the undo history or the
\* stored ledger refers to
ReferencedKeys ==
    PhotoKeys(appData)
        \cup UNION {PhotoKeys(history[i]) : i \in 1..Len(history)}
        \cup (IF persisted.tag = "ok" THEN PhotoKeys(persisted.data) ELSE {})

\* C33: no orphaned blobs: in the build with the photo store every key of
\* the store is referred to by an item of the ledger or of a snapshot of the
\* undo history (or of the ledger in the slot).
C33_NoOrphanedBlobs ==
    variant = 1 => photoDB \subseteq ReferencedKeys


C35_StartKeepsStoredDays ==
    [][(urlData.tag = "none" /\ persisted.tag = "ok" /\ DOMAIN persisted.data # {}
          /\ steps' = 0)
         => (persisted'.tag = "ok" /\ Holds(persisted'.data, persisted))]_vars


\* C36: granting edit access does not by itself write the slot: in a
\* session that imported a shared ledger, no step taken before the user's
\* first mutation (the undo history is still empty) changes the slot, the
\* grant and the effects that follow it included.
C36_GrantDoesNotPersist ==
    [][(variant = 1 /\ urlData.tag = "ok" /\ history' = <<>>)
          => persisted' = persisted]_vars


\* C37: the access state is monotone within a session: the session becomes
\* read-only only in the mount of variant 1 that decoded a share token, so a
\* session that is editable after its mount never becomes read-only, and a
\* read-only session is one that imported a shared ledger.
C37_AccessIsMonotone ==
    /\ [][(~isReadOnly /\ isReadOnly') =>
             /\ pc = "mount"
             /\ lastOp' = "mount"
             /\ variant = 1
             /\ urlData.tag = "ok"]_vars
    /\ [](isReadOnly => (variant = 1 /\ urlData.tag = "ok" /\ pc # "mount"))

\* a session that started read-only was granted edit access, and the user
\* has since added a row: it is still editable
C37_Witness ==
    /\ imported # EmptyLedger
    /\ requested > 0
    /\ lastOp = "add"
    /\ pc = "idle"
    /\ history # <<>>
    /\ ~isReadOnly

====
